---- MODULE Spec2Model ----
(***************************************************************************)
(* The compactindexsized reader of rust-compactindex: header and metadata  *)
(* parsing, bucket headers and descriptors, the in-bucket Eytzinger search *)
(* and the reader facade, over byte buffers.                               *)
(*                                                                         *)
(* Conventions.  A byte buffer is a sequence over 0..255; Rust's 0-based   *)
(* range buf[a..b] is Slice(buf, a, b).  u32 and usize quantities are      *)
(* naturals (usize is 64 bits wide, so no usize sum of this code wraps);   *)
(* the inputs drawn keep every decoded field below 2^31.  u8 arithmetic    *)
(* keeps its width: an overflowing u8 operation panics when the build has  *)
(* overflow checks (debug profile) and wraps otherwise (release profile);  *)
(* the profile is the variable overflow_checks.  A u64 hash is its eight   *)
(* little-endian bytes.  A result is a record with a field kind: "Ok",     *)
(* an error kind of CompactIndexError, or "Panic".                         *)
(***************************************************************************)
EXTENDS Integers, Sequences, FiniteSets, TLC

VARIABLES
    buf,              \* the bytes handed to Header::load / from_slice / mapped by open
    gen,              \* ghost: the fields the buffer was laid out from
    hres,             \* result of Header::load(buf), NONE before the call
    reader,           \* the reader built by open / from_slice
    overflow_checks,  \* the build profile: TRUE when integer overflow panics
    hsel,             \* which function of the family stands for xxh64
    bucket,           \* SpecBucket: the Bucket under test
    bkey,             \* SpecBucket: the key looked up
    bres,             \* SpecBucket: result of Bucket::lookup, NONE before the call
    call,             \* Spec: the last call on the reader, its result and its reads
    first,            \* Spec: per key, the result of the first lookup and the flag then
    threads,          \* SpecConc: per thread, the call in progress and its locals
    cursors,          \* SpecConc: the cursors the calls in progress read through
    wrapper,          \* SpecWrap: the typed index built by a wrapper's open
    dump              \* SpecDump: the indexes and the locals of dump_slots' main

vars == <<buf, gen, hres, reader, overflow_checks, hsel, bucket, bkey, bres,
          call, first, threads, cursors, wrapper, dump>>

NONE == [kind |-> "None"]

NoCall == [op |-> "none"]

Byte == 0..255

(***************************************************************************)
(* Byte-level helpers                                                      *)
(***************************************************************************)

\* buf[a..b] of Rust: the bytes at 0-based positions a .. b-1.
Slice(b, from, to) == SubSeq(b, from + 1, to)

Min(a, b) == IF a < b THEN a ELSE b

RECURSIVE LEValue(_)
\* Little-endian value of a byte sequence.
LEValue(bs) == IF bs = <<>> THEN 0 ELSE bs[1] + 256 * LEValue(Tail(bs))

RECURSIVE BEValue(_)
\* Big-endian value of a byte sequence.
BEValue(bs) == IF bs = <<>> THEN 0 ELSE bs[Len(bs)] + 256 * BEValue(SubSeq(bs, 1, Len(bs) - 1))

\* A u32 read in the wrong byte order.
read_u32_be(b, off) == BEValue(Slice(b, off, off + 4))

\* LittleEndian::read_u32(&buf[off..off+4])
read_u32(b, off) == LEValue(Slice(b, off, off + 4))

\* LittleEndian::read_u64(&buf[off..off+8])
read_u64(b, off) == LEValue(Slice(b, off, off + 8))

\* n.to_le_bytes() of a u32 / u64 holding n
u32_le_bytes(n) ==
    << n % 256, (n \div 256) % 256, (n \div 65536) % 256, (n \div 16777216) % 256 >>

u64_le_bytes(n) == u32_le_bytes(n) \o <<0, 0, 0, 0>>

(***************************************************************************)
(* types.rs: constants, errors, Metadata                                   *)
(***************************************************************************)

\* b"compiszd"
MAGIC == <<99, 111, 109, 112, 105, 115, 122, 100>>

VERSION == 1

InvalidFormat(msg) == [kind |-> "InvalidFormat", detail |-> msg]

InvalidMagic == [kind |-> "InvalidMagic"]

UnsupportedVersion(e, g) == [kind |-> "UnsupportedVersion", expected |-> e, got |-> g]

RECURSIVE unmarshal_pairs_lenient(_, _, _, _)
\* The for loop of Metadata::unmarshal_binary, stopping at the end of the data
\* with the pairs read so far instead of failing.
unmarshal_pairs_lenient(data, offset, n, pairs) ==
    IF n = 0 \/ offset >= Len(data) THEN [kind |-> "Ok", pairs |-> pairs]
    ELSE LET key_len == data[offset + 1]
             o1 == offset + 1
             o2 == o1 + key_len
         IN  IF o2 >= Len(data) THEN [kind |-> "Ok", pairs |-> pairs]
             ELSE LET value_len == data[o2 + 1]
                      o3 == o2 + 1
                  IN  IF o3 + value_len > Len(data) THEN [kind |-> "Ok", pairs |-> pairs]
                      ELSE unmarshal_pairs_lenient(data, o3 + value_len, n - 1,
                               Append(pairs, <<Slice(data, o1, o2),
                                               Slice(data, o3, o3 + value_len)>>))

RECURSIVE unmarshal_pairs(_, _, _, _)
\* The for loop of Metadata::unmarshal_binary: n pairs still to read at offset.
unmarshal_pairs(data, offset, n, pairs) ==
    IF n = 0 THEN [kind |-> "Ok", pairs |-> pairs]
    ELSE IF offset >= Len(data)
    THEN InvalidFormat("Invalid metadata format: unexpected end")
    ELSE LET key_len == data[offset + 1]
             o1 == offset + 1
         IN  IF o1 + key_len > Len(data)
             THEN InvalidFormat("Invalid metadata key length")
             ELSE LET key == Slice(data, o1, o1 + key_len)
                      o2 == o1 + key_len
                  IN  IF o2 >= Len(data)
                      THEN InvalidFormat("Invalid metadata value length position")
                      ELSE LET value_len == data[o2 + 1]
                               o3 == o2 + 1
                           IN  IF o3 + value_len > Len(data)
                               THEN InvalidFormat("Invalid metadata value length")
                               ELSE unmarshal_pairs(data, o3 + value_len, n - 1,
                                        Append(pairs,
                                               <<key, Slice(data, o3, o3 + value_len)>>))

\* Metadata::unmarshal_binary on a metadata holding `pairs`.
unmarshal_binary(pairs, data) ==
    IF data = <<>> THEN [kind |-> "Ok", pairs |-> pairs]
    ELSE unmarshal_pairs(data, 1, data[1], pairs)

(***************************************************************************)
(* header.rs: Header::load                                                 *)
(***************************************************************************)

\* Header::load without its "Validate fields" block.
load_fields_unvalidated(b, total_header_size, value_size, num_buckets) ==
    LET md == IF total_header_size > 25
              THEN unmarshal_binary(<<>>, Slice(b, 25, total_header_size))
              ELSE [kind |-> "Ok", pairs |-> <<>>]
    IN  IF md.kind # "Ok" THEN md
        ELSE [kind |-> "Ok",
              header |-> [value_size |-> value_size,
                          num_buckets |-> num_buckets,
                          metadata |-> md.pairs],
              size |-> total_header_size]

\* Header::load, "Validate fields" and the return: metadata is parsed first,
\* then the zero-field checks.
load_fields(b, total_header_size, value_size, num_buckets) ==
    LET md == IF total_header_size > 25
              THEN unmarshal_binary(<<>>, Slice(b, 25, total_header_size))
              ELSE [kind |-> "Ok", pairs |-> <<>>]
    IN  IF md.kind # "Ok" THEN md
        ELSE IF value_size = 0 THEN InvalidFormat("Value size not set")
        ELSE IF num_buckets = 0 THEN InvalidFormat("Number of buckets not set")
        ELSE [kind |-> "Ok",
              header |-> [value_size |-> value_size,
                          num_buckets |-> num_buckets,
                          metadata |-> md.pairs],
              size |-> total_header_size]

\* A reordering of load_version: the version is tested only once the metadata
\* and the fields are accepted.
load_version_late(b, total_header_size) ==
    LET r == load_fields(b, total_header_size, read_u64(b, 12), read_u32(b, 20))
    IN  IF Len(b) < 25 THEN InvalidFormat("No version byte")
        ELSE IF r.kind # "Ok" THEN r
        ELSE IF b[25] # VERSION THEN UnsupportedVersion(VERSION, b[25])
        ELSE r

\* Header::load, "Parse header fields" and "Check version".
load_version(b, total_header_size) ==
    LET value_size == read_u64(b, 12)
        num_buckets == read_u32(b, 20)
    IN  IF Len(b) < 25 THEN InvalidFormat("No version byte")
        ELSE IF b[25] # VERSION THEN UnsupportedVersion(VERSION, b[25])
        ELSE load_fields(b, total_header_size, value_size, num_buckets)

\* Header::load, "Read header length".
load_length(b) ==
    IF Len(b) < 12 THEN InvalidFormat("Buffer too small for header")
    ELSE LET header_len == read_u32(b, 8)
             total_header_size == 8 + 4 + header_len
         IN  IF header_len < 12 THEN InvalidFormat("Invalid header length")
             ELSE IF Len(b) < total_header_size
             THEN InvalidFormat("Buffer too small for complete header")
             ELSE load_version(b, total_header_size)

\* A magic test that compares one byte too few.
check_magic_short(b) == Len(b) >= 8 /\ Slice(b, 0, 7) = Slice(MAGIC, 0, 7)

\* Header::load, "Check magic bytes": the condition under which it goes on.
check_magic(b) == Len(b) >= 8 /\ Slice(b, 0, 8) = MAGIC

Header_load(b) == IF ~check_magic(b) THEN InvalidMagic ELSE load_length(b)

(***************************************************************************)
(* u64 arithmetic on eight little-endian bytes                             *)
(***************************************************************************)

U64Zero == <<0, 0, 0, 0, 0, 0, 0, 0>>

RECURSIVE XorByte(_, _)
XorByte(a, b) ==
    IF a = 0 /\ b = 0 THEN 0
    ELSE (((a % 2) + (b % 2)) % 2) + 2 * XorByte(a \div 2, b \div 2)

\* a ^ b
U64Xor(a, b) == [i \in 1..8 |-> XorByte(a[i], b[i])]

\* x >> 33
U64Shr33(x) ==
    LET y == [i \in 1..9 |-> IF i + 4 <= 8 THEN x[i + 4] ELSE 0]
    IN  [i \in 1..8 |-> (y[i] \div 2) + (y[i + 1] % 2) * 128]

RECURSIVE MulLimbs(_, _, _, _)
\* Bytes k..8 of a * b modulo 2^64, given the carry into byte k.
MulLimbs(a, b, k, carry) ==
    IF k > 8 THEN <<>>
    ELSE LET RECURSIVE Column(_)
             Column(i) == IF i > k THEN 0 ELSE a[i] * b[k + 1 - i] + Column(i + 1)
             t == Column(1) + carry
         IN  <<t % 256>> \o MulLimbs(a, b, k + 1, t \div 256)

\* a.wrapping_mul(b)
U64WrappingMul(a, b) == MulLimbs(a, b, 1, 0)

RECURSIVE U64ModFrom(_, _, _, _)
U64ModFrom(h, n, i, r) ==
    IF i = 0 THEN r ELSE U64ModFrom(h, n, i - 1, (r * 256 + h[i]) % n)

\* h % n for a u64 h and 0 < n < 2^23
U64Mod(h, n) == U64ModFrom(h, n, 8, 0)

RECURSIVE U64DivFrom(_, _, _, _)
\* Long division by n from the most significant byte: quotient bytes i..1.
U64DivFrom(h, n, i, r) ==
    IF i = 0 THEN <<>>
    ELSE LET t == r * 256 + h[i]
         IN  U64DivFrom(h, n, i - 1, t % n) \o <<t \div n>>

\* h / n for a u64 h and 0 < n < 2^23
U64Div(h, n) == U64DivFrom(h, n, 8, 0)

RECURSIVE U64LessFrom(_, _, _)
U64LessFrom(a, b, i) ==
    IF i = 0 THEN FALSE
    ELSE IF a[i] # b[i] THEN a[i] < b[i]
    ELSE U64LessFrom(a, b, i - 1)

\* a < b as u64
U64Less(a, b) == U64LessFrom(a, b, 8)

(***************************************************************************)
(* utils.rs                                                                *)
(***************************************************************************)

\* uint_le: the u64 of at most the first 8 bytes, missing bytes zero.
uint_le(bs) == [i \in 1..8 |-> IF i <= Min(Len(bs), 8) THEN bs[i] ELSE 0]

\* 0xff51afd7ed558ccd
MixC1 == <<205, 140, 85, 237, 215, 175, 81, 255>>

\* 0xc4ceb9fe1a85ec53
MixC2 == <<83, 236, 133, 26, 254, 185, 206, 196>>

\* hash_uint64: the Murmur3 finalizer.
hash_uint64(x) ==
    LET x1 == U64Xor(x, U64Shr33(x))
        x2 == U64WrappingMul(x1, MixC1)
        x3 == U64Xor(x2, U64Shr33(x2))
        x4 == U64WrappingMul(x3, MixC2)
    IN  U64Xor(x4, U64Shr33(x4))

(***************************************************************************)
(* xxh64 (crate xxhash_rust): a fixed function from byte strings to u64.   *)
(* The model takes it from a family of functions indexed by hsel.          *)
(***************************************************************************)

\* The values the stand-ins for xxh64 take.  Low bytes repeat across values,
\* and byte order and numeric order disagree between some of them.
HashVals ==
    << <<1, 0, 0, 0, 0, 0, 0, 0>>,
       <<2, 0, 0, 0, 0, 0, 0, 0>>,
       <<0, 1, 0, 0, 0, 0, 0, 0>>,
       <<3, 0, 0, 0, 0, 0, 0, 128>>,
       <<1, 1, 0, 0, 0, 0, 0, 0>>,
       <<4, 0, 7, 0, 0, 0, 0, 0>>,
       <<2, 1, 0, 0, 0, 9, 0, 0>>,
       <<5, 2, 0, 0, 0, 0, 0, 0>> >>

RECURSIVE Weight(_, _)
Weight(data, i) == IF i > Len(data) THEN 0 ELSE i * data[i] + Weight(data, i + 1)

\* Hashes of the keys under the functions that go with the test fixtures: the
\* fixtures' entry hashes 0x111111, 0x222222 and 0x333333, the absent 0x999999,
\* and 0x111111 below a nonzero high half.
FixtureVals ==
    << <<17, 17, 17, 0, 0, 0, 0, 0>>,
       <<34, 34, 34, 0, 0, 0, 0, 0>>,
       <<51, 51, 51, 0, 0, 0, 0, 0>>,
       <<153, 153, 153, 0, 0, 0, 0, 0>>,
       <<17, 17, 17, 171, 0, 0, 0, 1>> >>

\* xxh64(data, 0) under the function selected by sel.
xxh64(sel, data) ==
    IF sel < Len(HashVals)
    THEN HashVals[((Weight(data, 1) + sel) % Len(HashVals)) + 1]
    ELSE FixtureVals[((Weight(data, 1) + sel) % Len(FixtureVals)) + 1]

(***************************************************************************)
(* header.rs: bucket_hash, BucketHeader, entry_hash64                      *)
(***************************************************************************)

Ok(v) == [kind |-> "Ok", value |-> v]

NotFound == [kind |-> "NotFound"]

Panic(msg) == [kind |-> "Panic", detail |-> msg]

IoError(msg) == [kind |-> "Io", detail |-> msg]

BucketOutOfBounds(i, m) == [kind |-> "BucketOutOfBounds", index |-> i, max |-> m]

\* bucket_hash without the fallback mix.
bucket_hash_unmixed(header, key) == U64Mod(xxh64(hsel, key), header.num_buckets)

\* Header::bucket_hash
bucket_hash(header, key) ==
    LET h == xxh64(hsel, key)
        n == header.num_buckets
        u == U64Mod(h, n)
    IN  IF U64Less(U64Div(h, n), u64_le_bytes(u))
        THEN U64Mod(hash_uint64(u64_le_bytes(u)), n)
        ELSE u % n

\* BucketHeader::SIZE
BucketHeader_SIZE == 16

\* BucketHeader::load
BucketHeader_load(hb) ==
    [ hash_domain |-> read_u32(hb, 0),
      num_entries |-> read_u32(hb, 4),
      hash_len |-> hb[9],
      file_offset |-> LEValue(uint_le(Slice(hb, 10, 16))) ]

\* entry_hash64: xxh64 of a 32-byte block starting with the prefix, then the key.
entry_hash64(prefix, key) ==
    LET prefix_block == u32_le_bytes(prefix) \o [i \in 1..28 |-> 0]
    IN  xxh64(hsel, prefix_block \o key)

\* The low `keep` bytes of x: x & (u64::MAX >> (64 - 8 * keep)).
MaskBytes(x, keep) == [i \in 1..8 |-> IF i <= keep THEN x[i] ELSE 0]

\* BucketHeader::hash without the mask: the whole 64-bit entry hash.
BucketHeader_hash_unmasked(h, key) ==
    [panic |-> FALSE, v |-> entry_hash64(h.hash_domain, key)]

\* BucketHeader::hash.  `64 - self.hash_len * 8` is u8 arithmetic and the
\* shift is by a u8: with overflow checks each step that overflows panics,
\* without them the product and the difference wrap modulo 256 and the shift
\* amount is taken modulo 64.
BucketHeader_hash(h, key) ==
    LET xsum == entry_hash64(h.hash_domain, key)
        bits == h.hash_len * 8
        shift == (64 - (bits % 256)) % 256
    IN  IF overflow_checks /\ (bits > 255 \/ bits > 64 \/ 64 - bits >= 64)
        THEN [panic |-> TRUE, v |-> U64Zero]
        ELSE [panic |-> FALSE, v |-> MaskBytes(xsum, (64 - (shift % 64)) \div 8)]

(***************************************************************************)
(* bucket.rs                                                               *)
(***************************************************************************)

\* BucketDescriptor::new.  The stride is a u8 sum: it panics on overflow with
\* overflow checks and wraps without.
BucketDescriptor_new(header, value_size) ==
    LET value_width == value_size % 256
        sum == header.hash_len + value_width
    IN  [ panic |-> overflow_checks /\ sum > 255,
          header |-> header,
          stride |-> sum % 256,
          value_width |-> value_width ]

\* unmarshal_entry reading the value before the hash.
unmarshal_entry_value_first(d, ebuf) ==
    LET hash_len == d.header.hash_len
    IN  IF hash_len > Len(ebuf) \/ hash_len + d.value_width > Len(ebuf)
        THEN [panic |-> TRUE, hash |-> U64Zero, value |-> <<>>]
        ELSE [panic |-> FALSE,
              hash |-> uint_le(Slice(ebuf, d.value_width, d.value_width + hash_len)),
              value |-> Slice(ebuf, 0, d.value_width)]

\* BucketDescriptor::unmarshal_entry: both range indexings are bounds-checked.
unmarshal_entry(d, ebuf) ==
    LET hash_len == d.header.hash_len
    IN  IF hash_len > Len(ebuf) \/ hash_len + d.value_width > Len(ebuf)
        THEN [panic |-> TRUE, hash |-> U64Zero, value |-> <<>>]
        ELSE [panic |-> FALSE,
              hash |-> uint_le(Slice(ebuf, 0, hash_len)),
              value |-> Slice(ebuf, hash_len, hash_len + d.value_width)]

\* BucketDescriptor::marshal_entry into the buffer b: the assertion on the
\* buffer's length, then two copy_from_slice into bounds-checked ranges of it,
\* each of which needs source and destination of one length.
marshal_entry(d, entry, b) ==
    LET hash_len == d.header.hash_len
        value_end == hash_len + d.value_width
    IN  IF Len(b) < d.stride \/ hash_len > Len(b) \/ hash_len > 8
           \/ value_end > Len(b) \/ Len(entry.value) # d.value_width
        THEN [panic |-> TRUE, buf |-> b]
        ELSE [panic |-> FALSE,
              buf |-> [i \in 1..Len(b) |->
                         IF i <= hash_len THEN entry.hash[i]
                         ELSE IF i <= value_end THEN entry.value[i - hash_len]
                         ELSE b[i]]]

\* Bucket::new
Bucket_new(descriptor, cursor, offset) ==
    [descriptor |-> descriptor, reader |-> cursor, offset |-> offset]

\* Cursor::new over a slice of the backing storage that starts at `base`.
Cursor_new(data, base) == [data |-> data, base |-> base, pos |-> 0]

\* Cursor::seek(SeekFrom::Start(offset))
Cursor_seek(c, offset) == [c EXCEPT !.pos = offset]

\* Cursor::read_exact of n bytes: the bytes and the position after them, or
\* failure (the position moves to the end) when fewer remain.
Cursor_read_exact(c, n) ==
    LET start == Min(c.pos, Len(c.data))
    IN  IF Len(c.data) - start < n
        THEN [ok |-> FALSE, bytes |-> <<>>, pos |-> Len(c.data),
              range |-> <<c.base + start, c.base + Len(c.data)>>]
        ELSE [ok |-> TRUE, bytes |-> Slice(c.data, start, start + n), pos |-> c.pos + n,
              range |-> <<c.base + start, c.base + start + n>>]

\* The decoding loop of load_all_entries over the bytes read.
decode_entries(d, bytes) ==
    [i \in 1..d.header.num_entries |->
        unmarshal_entry(d, Slice(bytes, (i - 1) * d.stride, i * d.stride))]

\* load_all_entries after the seek: read_exact of the whole bucket through
\* cursor c, then the decoding loop.
read_entries(d, c) ==
    LET total_size == d.header.num_entries * d.stride
        rd == Cursor_read_exact(c, total_size)
        entries == decode_entries(d, rd.bytes)
    IN  IF ~rd.ok THEN [kind |-> "Io", entries |-> <<>>, range |-> rd.range, pos |-> rd.pos]
        ELSE IF \E i \in 1..Len(entries) : entries[i].panic
        THEN [kind |-> "Panic", entries |-> <<>>, range |-> rd.range, pos |-> rd.pos]
        ELSE [kind |-> "Ok", entries |-> entries, range |-> rd.range, pos |-> rd.pos]

\* Bucket::load_all_entries
load_all_entries(b) == read_entries(b.descriptor, Cursor_seek(b.reader, b.offset))

\* Bucket::load_all: seek, read_exact of stride * num_entries bytes, then one
\* unmarshal_entry per stride-byte piece.
Bucket_load_all(b) ==
    LET stride == b.descriptor.stride
        num_entries == b.descriptor.header.num_entries
        total_size == stride * num_entries
        rd == Cursor_read_exact(Cursor_seek(b.reader, b.offset), total_size)
        entries == [i \in 1..num_entries |->
                       unmarshal_entry(b.descriptor,
                                       Slice(rd.bytes, (i - 1) * stride, i * stride))]
    IN  IF ~rd.ok THEN [kind |-> "Io", entries |-> <<>>, range |-> rd.range]
        ELSE IF \E i \in 1..num_entries : entries[i].panic
        THEN [kind |-> "Panic", entries |-> <<>>, range |-> rd.range]
        ELSE [kind |-> "Ok", entries |-> entries, range |-> rd.range]

\* Bucket::load_entry: the index is tested, then stride bytes are read at
\* offset + index * stride and unmarshalled.
Bucket_load_entry(b, index) ==
    LET stride == b.descriptor.stride
        offset == b.offset + index * stride
        rd == Cursor_read_exact(Cursor_seek(b.reader, offset), stride)
        entry == unmarshal_entry(b.descriptor, rd.bytes)
    IN  IF index >= b.descriptor.header.num_entries
        THEN [kind |-> "InvalidFormat", entries |-> <<>>, range |-> <<0, 0>>]
        ELSE IF ~rd.ok THEN [kind |-> "Io", entries |-> <<>>, range |-> rd.range]
        ELSE IF entry.panic THEN [kind |-> "Panic", entries |-> <<>>, range |-> rd.range]
        ELSE [kind |-> "Ok", entries |-> <<entry>>, range |-> rd.range]

\* The outcomes of Bucket::lookup that are not a search result.
HashPanic == Panic("BucketHeader::hash: arithmetic overflow")

ReadFailed == IoError("failed to fill whole buffer")

UnmarshalPanic == Panic("unmarshal_entry: range out of bounds")

RECURSIVE eytzinger_search_swapped(_, _, _, _, _)
\* The search with the two children exchanged: right when the entry is larger.
eytzinger_search_swapped(entries, max, target, index, probes) ==
    IF ~(index < max) THEN [res |-> NotFound, probes |-> probes]
    ELSE LET entry == entries[index + 1]
             next == (2 * index + 1) + (IF U64Less(target, entry.hash) THEN 1 ELSE 0)
             seen == Append(probes, index)
         IN  IF entry.hash = target THEN [res |-> Ok(entry.value), probes |-> seen]
             ELSE IF next >= max THEN [res |-> NotFound, probes |-> seen]
             ELSE eytzinger_search_swapped(entries, max, target, next, seen)

RECURSIVE eytzinger_search_linear(_, _, _, _, _)
\* The search stepping to the next array index instead of to a child.
eytzinger_search_linear(entries, max, target, index, probes) ==
    IF ~(index < max) THEN [res |-> NotFound, probes |-> probes]
    ELSE LET entry == entries[index + 1]
             next == index + 1
             seen == Append(probes, index)
         IN  IF entry.hash = target THEN [res |-> Ok(entry.value), probes |-> seen]
             ELSE IF next >= max THEN [res |-> NotFound, probes |-> seen]
             ELSE eytzinger_search_linear(entries, max, target, next, seen)

RECURSIVE eytzinger_search_nearest(_, _, _, _, _)
\* The search answering with the entry it stops at when no hash is equal.
eytzinger_search_nearest(entries, max, target, index, probes) ==
    IF ~(index < max) THEN [res |-> NotFound, probes |-> probes]
    ELSE LET entry == entries[index + 1]
             next == (2 * index + 1) + (IF U64Less(entry.hash, target) THEN 1 ELSE 0)
             seen == Append(probes, index)
         IN  IF entry.hash = target \/ next >= max
             THEN [res |-> Ok(entry.value), probes |-> seen]
             ELSE eytzinger_search_nearest(entries, max, target, next, seen)

RECURSIVE eytzinger_search(_, _, _, _, _)
\* The while loop of Bucket::lookup from `index` on; probes are the indices
\* compared so far.
eytzinger_search(entries, max, target, index, probes) ==
    IF ~(index < max) THEN [res |-> NotFound, probes |-> probes]
    ELSE LET entry == entries[index + 1]
             next == (2 * index + 1) + (IF U64Less(entry.hash, target) THEN 1 ELSE 0)
             seen == Append(probes, index)
         IN  IF entry.hash = target THEN [res |-> Ok(entry.value), probes |-> seen]
             ELSE IF next >= max THEN [res |-> NotFound, probes |-> seen]
             ELSE eytzinger_search(entries, max, target, next, seen)

\* Bucket::lookup, with the ranges of the backing storage it read and the
\* entry indices it compared.
Bucket_lookup_full(b, key) ==
    LET target == BucketHeader_hash(b.descriptor.header, key)
        max == b.descriptor.header.num_entries
        loaded == load_all_entries(b)
        found == eytzinger_search(loaded.entries, max, target.v, 0, <<>>)
    IN  IF target.panic
        THEN [res |-> HashPanic, reads |-> <<>>, probes |-> <<>>]
        ELSE IF loaded.kind = "Io"
        THEN [res |-> ReadFailed, reads |-> <<loaded.range>>, probes |-> <<>>]
        ELSE IF loaded.kind = "Panic"
        THEN [res |-> UnmarshalPanic, reads |-> <<loaded.range>>, probes |-> <<>>]
        ELSE [res |-> found.res, reads |-> <<loaded.range>>, probes |-> found.probes]

\* Bucket::lookup
Bucket_lookup(b, key) == Bucket_lookup_full(b, key).res

(***************************************************************************)
(* Header buffers: the on-disk layout, and the deviations from it          *)
(***************************************************************************)

\* Most metadata pairs in a generated header.
MaxPairs == 2

\* Most fields of a generated buffer that deviate from the layout.
MaxDeviations == 2

RECURSIVE SeqsUpTo(_, _)
\* The sequences over S of length at most n.
SeqsUpTo(S, n) ==
    IF n = 0 THEN {<<>>}
    ELSE LET shorter == SeqsUpTo(S, n - 1)
         IN  shorter \cup {Append(q, x) : q \in shorter, x \in S}

RECURSIVE encode_pairs(_)
encode_pairs(pairs) ==
    IF pairs = <<>> THEN <<>>
    ELSE <<Len(pairs[1][1])>> \o pairs[1][1] \o <<Len(pairs[1][2])>> \o pairs[1][2]
         \o encode_pairs(Tail(pairs))

\* The metadata block of the layout: pair count, then length-prefixed pairs.
encode_metadata(pairs) == <<Len(pairs)>> \o encode_pairs(pairs)

\* Metadata pairs of generated headers; two of them share a key.
GenPairs == { <<(<<1>>), (<<7, 8>>)>>, <<(<<1>>), (<<>>)>>, <<(<<2, 3>>), (<<9>>)>> }

\* Metadata blocks that are not an encoding: a count with no pair, a key
\* length past the end, a missing value length, a value length past the end,
\* a count of two with one pair.
BadMetadata == { <<1>>, <<1, 2, 1>>, <<1, 1, 1>>, <<1, 1, 1, 3, 7>>, <<2, 1, 1, 0>> }

\* Metadata blocks with bytes after the pairs their count announces.
LongMetadata ==
    { [ok |-> TRUE, pairs |-> <<>>, block |-> <<0, 1, 1>>],
      [ok |-> TRUE, pairs |-> << <<(<<1>>), (<<7, 8>>)>> >>,
       block |-> <<1, 1, 1, 2, 7, 8, 1, 1, 0>>] }

\* Magic values: the constant, and the constant with one byte changed.
GenMagics == { MAGIC, [MAGIC EXCEPT ![1] = 0], [MAGIC EXCEPT ![8] = 101] }

Exact == [tag |-> "exact", n |-> 0]

Abs(n) == [tag |-> "abs", n |-> n]

Uncut == [tag |-> "none", n |-> 0]

\* A generated buffer's fields.  header_len is Exact (13 + the metadata block's
\* length), "plus1" (one more than the bytes that follow the length field) or
\* Abs(n); md.block is the metadata block, which encodes md.pairs when md.ok;
\* cut is Uncut, "minus1" (one byte short of the header) or Abs(n), the length
\* the buffer is cut to.
HeaderGens ==
    LET Blocks == { [ok |-> TRUE, pairs |-> ps, block |-> encode_metadata(ps)] :
                        ps \in SeqsUpTo(GenPairs, MaxPairs) }
                  \cup { [ok |-> TRUE, pairs |-> <<>>, block |-> <<>>] }
                  \cup { [ok |-> FALSE, pairs |-> <<>>, block |-> b] : b \in BadMetadata }
                  \cup LongMetadata
        All == [ magic : GenMagics,
                 header_len : {Exact, [tag |-> "plus1", n |-> 0],
                               Abs(0), Abs(11), Abs(12), Abs(13)},
                 value_size : {1, 513, 0},
                 num_buckets : {1, 513, 0},
                 version : {1, 0, 2},
                 md : Blocks,
                 trailing : {<<>>, <<1, 0>>},
                 cut : {Uncut, [tag |-> "minus1", n |-> 0],
                        Abs(0), Abs(7), Abs(11), Abs(12), Abs(24)} ]
        Deviations(g) ==
              (IF g.magic # MAGIC THEN 1 ELSE 0)
            + (IF g.header_len # Exact THEN 1 ELSE 0)
            + (IF g.value_size = 0 THEN 1 ELSE 0)
            + (IF g.num_buckets = 0 THEN 1 ELSE 0)
            + (IF g.version # VERSION THEN 1 ELSE 0)
            + (IF ~g.md.ok THEN 1 ELSE 0)
            + (IF g.cut # Uncut THEN 1 ELSE 0)
    IN  { g \in All : Deviations(g) <= MaxDeviations }

\* The header_len field a generated buffer carries.
GenHeaderLen(g) ==
    CASE g.header_len.tag = "exact" -> 13 + Len(g.md.block)
      [] g.header_len.tag = "plus1" -> 13 + Len(g.md.block) + Len(g.trailing) + 1
      [] OTHER -> g.header_len.n

\* The bytes of a generated buffer, laid out as the fixtures lay it out.
HeaderBytes(g) ==
    LET full == g.magic \o u32_le_bytes(GenHeaderLen(g)) \o u64_le_bytes(g.value_size)
                \o u32_le_bytes(g.num_buckets) \o <<g.version>> \o g.md.block
                \o g.trailing
    IN  CASE g.cut.tag = "none" -> full
          [] g.cut.tag = "minus1" -> SubSeq(full, 1, 12 + 13 + Len(g.md.block) - 1)
          [] OTHER -> SubSeq(full, 1, Min(g.cut.n, Len(full)))

\* The buffer is an encoding per the layout: every field as the layout says.
WellFormed(g) ==
    /\ g.magic = MAGIC
    /\ g.header_len = Exact
    /\ g.value_size >= 1
    /\ g.num_buckets >= 1
    /\ g.version = VERSION
    /\ g.md.ok
    /\ g.cut = Uncut

(***************************************************************************)
(* reader.rs: construction                                                 *)
(***************************************************************************)

Unopened == [state |-> "Unopened"]

\* CompactIndexReader::open over a file holding bytes b (the file opens and
\* maps), and CompactIndexReader::from_slice(b).
construct(backing, b) ==
    LET r == Header_load(b)
    IN  IF r.kind # "Ok" THEN [state |-> "Failed", backing |-> backing, error |-> r]
        ELSE [state |-> "Opened", backing |-> backing, header |-> r.header,
              header_size |-> r.size, data |-> b, prefetch |-> FALSE]

open(b) == construct("mmap", b)

from_slice(b) == construct("slice", b)

(***************************************************************************)
(* reader.rs: accessors.  Each returns its result and the ranges of the    *)
(* backing storage it read.                                                *)
(***************************************************************************)

\* The prefetch cap of get_bucket, in entries.
PrefetchEntries == 3000

\* bucket_offset
bucket_offset(r, index) == r.header_size + index * BucketHeader_SIZE

\* The prefetch block touching PrefetchEntries entries whatever the bucket holds.
prefetch_panics_unclamped(r, bucket_header, descriptor, data_start, data_end) ==
    LET prefetch_end == data_start + PrefetchEntries * descriptor.stride
    IN  /\ r.prefetch
        /\ prefetch_end > data_start
        /\ prefetch_end > Len(r.data)

\* The prefetch block of get_bucket: the range it touches is bounds-checked.
prefetch_panics(r, bucket_header, descriptor, data_start, data_end) ==
    LET entries_to_prefetch == Min(PrefetchEntries, bucket_header.num_entries)
        prefetch_size == entries_to_prefetch * descriptor.stride
        prefetch_end == Min(data_start + prefetch_size, data_end)
    IN  /\ r.prefetch
        /\ prefetch_end > data_start
        /\ prefetch_end > Len(r.data)

\* get_bucket once the bucket header is decoded.
bucket_at(r, bucket_header, reads) ==
    LET descriptor == BucketDescriptor_new(bucket_header, r.header.value_size)
        data_start == bucket_header.file_offset
        data_size == bucket_header.num_entries * descriptor.stride
        data_end == data_start + data_size
    IN  IF descriptor.panic
        THEN [res |-> Panic("BucketDescriptor::new: attempt to add with overflow"),
              reads |-> reads]
        ELSE IF data_end > Len(r.data)
        THEN [res |-> InvalidFormat("Bucket data out of bounds"), reads |-> reads]
        ELSE IF prefetch_panics(r, bucket_header, descriptor, data_start, data_end)
        THEN [res |-> Panic("prefetch range out of bounds"), reads |-> reads]
        ELSE [res |-> [kind |-> "Ok",
                       bucket |-> Bucket_new(descriptor,
                                     Cursor_new(Slice(r.data, data_start, data_end),
                                                data_start), 0)],
              reads |-> reads]

\* get_bucket with the index tested only after the bucket header is read.
get_bucket_check_late(r, index) ==
    LET bucket_header_offset == bucket_offset(r, index)
        range == <<bucket_header_offset, bucket_header_offset + BucketHeader_SIZE>>
    IN  IF bucket_header_offset + BucketHeader_SIZE > Len(r.data)
        THEN [res |-> InvalidFormat("Bucket header offset out of bounds"), reads |-> <<>>]
        ELSE IF index >= r.header.num_buckets
        THEN [res |-> BucketOutOfBounds(index, r.header.num_buckets), reads |-> <<range>>]
        ELSE bucket_at(r, BucketHeader_load(Slice(r.data, range[1], range[2])), <<range>>)

\* get_bucket serving the record from a table decoded at construction: the
\* call itself reads no record from the backing storage.
get_bucket_cached(r, index) ==
    IF index >= r.header.num_buckets
    THEN [res |-> BucketOutOfBounds(index, r.header.num_buckets), reads |-> <<>>]
    ELSE LET bucket_header_offset == bucket_offset(r, index)
         IN  IF bucket_header_offset + BucketHeader_SIZE > Len(r.data)
             THEN [res |-> InvalidFormat("Bucket header offset out of bounds"),
                   reads |-> <<>>]
             ELSE bucket_at(r, BucketHeader_load(Slice(r.data, bucket_header_offset,
                                   bucket_header_offset + BucketHeader_SIZE)), <<>>)

\* CompactIndexReader::get_bucket
get_bucket(r, index) ==
    IF index >= r.header.num_buckets
    THEN [res |-> BucketOutOfBounds(index, r.header.num_buckets), reads |-> <<>>]
    ELSE LET bucket_header_offset == bucket_offset(r, index)
             range == <<bucket_header_offset, bucket_header_offset + BucketHeader_SIZE>>
         IN  IF bucket_header_offset + BucketHeader_SIZE > Len(r.data)
             THEN [res |-> InvalidFormat("Bucket header offset out of bounds"),
                   reads |-> <<>>]
             ELSE bucket_at(r, BucketHeader_load(Slice(r.data, range[1], range[2])),
                            <<range>>)

\* CompactIndexReaderSlice::get_bucket without the bounds check of the record:
\* the range indexing of the data panics where the check would have failed.
Slice_get_bucket_unchecked(r, index) ==
    IF index >= r.header.num_buckets
    THEN [res |-> BucketOutOfBounds(index, r.header.num_buckets), reads |-> <<>>]
    ELSE LET bucket_header_offset == bucket_offset(r, index)
             range == <<bucket_header_offset, bucket_header_offset + BucketHeader_SIZE>>
         IN  IF bucket_header_offset + BucketHeader_SIZE > Len(r.data)
             THEN [res |-> Panic("range end index out of range for slice"),
                   reads |-> <<>>]
             ELSE bucket_at(r, BucketHeader_load(Slice(r.data, range[1], range[2])),
                            <<range>>)

\* CompactIndexReaderSlice::get_bucket
Slice_get_bucket(r, index) ==
    IF index >= r.header.num_buckets
    THEN [res |-> BucketOutOfBounds(index, r.header.num_buckets), reads |-> <<>>]
    ELSE LET bucket_header_offset == bucket_offset(r, index)
             range == <<bucket_header_offset, bucket_header_offset + BucketHeader_SIZE>>
         IN  IF bucket_header_offset + BucketHeader_SIZE > Len(r.data)
             THEN [res |-> InvalidFormat("Bucket header offset out of bounds"),
                   reads |-> <<>>]
             ELSE bucket_at(r, BucketHeader_load(Slice(r.data, range[1], range[2])),
                            <<range>>)

\* `?` on a get_bucket result, then bucket.lookup(key).
lookup_in(got, key) ==
    IF got.res.kind # "Ok" THEN got
    ELSE LET found == Bucket_lookup_full(got.res.bucket, key)
         IN  [res |-> found.res, reads |-> got.reads \o found.reads]

\* CompactIndexReader::lookup
lookup(r, key) == lookup_in(get_bucket(r, bucket_hash(r.header, key)), key)

\* CompactIndexReaderSlice::lookup
Slice_lookup(r, key) == lookup_in(Slice_get_bucket(r, bucket_hash(r.header, key)), key)

\* CompactIndexReader::lookup_bucket
lookup_bucket(r, key) == get_bucket(r, bucket_hash(r.header, key))

\* CompactIndexReaderSlice::lookup_bucket
Slice_lookup_bucket(r, key) == Slice_get_bucket(r, bucket_hash(r.header, key))

\* Metadata::get that keeps the last pair with the key, as a map built by
\* inserting the pairs in order would.
Metadata_get_last(pairs, key) ==
    IF \E i \in 1..Len(pairs) : pairs[i][1] = key
    THEN [some |-> TRUE,
          value |-> pairs[CHOOSE i \in 1..Len(pairs) :
                            /\ pairs[i][1] = key
                            /\ \A j \in (i + 1)..Len(pairs) : pairs[j][1] # key][2]]
    ELSE [some |-> FALSE, value |-> <<>>]

\* Metadata::get: the value of the first pair with the key.
Metadata_get(pairs, key) ==
    IF \E i \in 1..Len(pairs) : pairs[i][1] = key
    THEN [some |-> TRUE,
          value |-> pairs[CHOOSE i \in 1..Len(pairs) :
                            /\ pairs[i][1] = key
                            /\ \A j \in 1..(i - 1) : pairs[j][1] # key][2]]
    ELSE [some |-> FALSE, value |-> <<>>]

\* get_metadata of either reader
get_metadata(r, key) == Metadata_get(r.header.metadata, key)

\* bucket_indices of either reader: the range 0..num_buckets, collected.
bucket_indices(r) == [i \in 1..r.header.num_buckets |-> i - 1]

\* set_prefetch that also forgets where the bucket table starts.
set_prefetch_clobber(r, enabled) == [r EXCEPT !.prefetch = enabled, !.header_size = 0]

\* set_prefetch of either reader
set_prefetch(r, enabled) == [r EXCEPT !.prefetch = enabled]

(***************************************************************************)
(* utils.rs: uint24 and uint48.  A u32 below 2^24 is an integer, a u64 is  *)
(* its eight little-endian bytes.                                          *)
(***************************************************************************)

\* MAX_UINT24
MAX_UINT24 == 16777215

\* uint24_to_bytes: panics above MAX_UINT24.
uint24_to_bytes(v) ==
    [panic |-> v > MAX_UINT24,
     bytes |-> <<v % 256, (v \div 256) % 256, (v \div 65536) % 256>>]

\* bytes_to_uint24 read in the wrong byte order.
bytes_to_uint24_be(bytes) == BEValue(SubSeq(bytes, 1, 3))

\* bytes_to_uint24 (on at least 3 bytes)
bytes_to_uint24(bytes) == LEValue(SubSeq(bytes, 1, 3))

\* uint48_to_bytes: panics above MAX_UINT48.
uint48_to_bytes(v) ==
    [panic |-> v[7] # 0 \/ v[8] # 0, bytes |-> SubSeq(v, 1, 6)]

\* bytes_to_uint48 (on at least 6 bytes)
bytes_to_uint48(bytes) == SubSeq(bytes, 1, 6) \o <<0, 0>>

(***************************************************************************)
(* indexes: the typed wrappers                                             *)
(***************************************************************************)

\* metadata_keys::KIND, b"index_kind"
KIND_KEY == <<105, 110, 100, 101, 120, 95, 107, 105, 110, 100>>

\* SlotToCid::KIND, b"slot-to-cid"
SlotToCid_KIND == <<115, 108, 111, 116, 45, 116, 111, 45, 99, 105, 100>>

\* SigToCid::KIND, b"sig-to-cid"
SigToCid_KIND == <<115, 105, 103, 45, 116, 111, 45, 99, 105, 100>>

\* CidToOffsetAndSize::KIND, b"cid-to-offset-and-size"
CidToOffsetAndSize_KIND ==
    <<99, 105, 100, 45, 116, 111, 45, 111, 102, 102, 115, 101, 116, 45,
      97, 110, 100, 45, 115, 105, 122, 101>>

\* CidToOffsetAndSize::VALUE_SIZE
VALUE_SIZE == 9

\* SigToCid::SIGNATURE_SIZE
SIGNATURE_SIZE == 64

ValueSizeMismatch(expected, got) ==
    [kind |-> "ValueSizeMismatch", expected |-> expected, got |-> got]

NoWrapper(error) == [state |-> "Failed", error |-> error]

Wrapper(kind, r) == [state |-> "Opened", kind |-> kind, reader |-> r]

\* The kind check that takes a missing index_kind for a wrong one.
kind_check_strict(r, KIND) ==
    LET kind == get_metadata(r, KIND_KEY)
    IN  IF ~kind.some \/ kind.value # KIND
        THEN InvalidFormat("Wrong index kind")
        ELSE [kind |-> "Ok"]

\* The kind check of the three open functions: "if let Some(kind) = ... ".
kind_check(r, KIND) ==
    LET kind == get_metadata(r, KIND_KEY)
    IN  IF kind.some /\ kind.value # KIND
        THEN InvalidFormat("Wrong index kind")
        ELSE [kind |-> "Ok"]

\* SlotToCid::open over a file holding bytes b
SlotToCid_open(b) ==
    LET r == open(b)
    IN  IF r.state = "Failed" THEN NoWrapper(r.error)
        ELSE IF kind_check(r, SlotToCid_KIND).kind # "Ok"
        THEN NoWrapper(kind_check(r, SlotToCid_KIND))
        ELSE Wrapper("slot-to-cid", r)

\* SigToCid::open
SigToCid_open(b) ==
    LET r == open(b)
    IN  IF r.state = "Failed" THEN NoWrapper(r.error)
        ELSE IF kind_check(r, SigToCid_KIND).kind # "Ok"
        THEN NoWrapper(kind_check(r, SigToCid_KIND))
        ELSE Wrapper("sig-to-cid", r)

\* CidToOffsetAndSize::open with the kind tested before the value size.
CidToOffsetAndSize_open_kind_first(b) ==
    LET r == open(b)
    IN  IF r.state = "Failed" THEN NoWrapper(r.error)
        ELSE IF kind_check(r, CidToOffsetAndSize_KIND).kind # "Ok"
        THEN NoWrapper(kind_check(r, CidToOffsetAndSize_KIND))
        ELSE IF r.header.value_size # VALUE_SIZE
        THEN NoWrapper(ValueSizeMismatch(VALUE_SIZE, r.header.value_size))
        ELSE Wrapper("cid-to-offset-and-size", r)

\* CidToOffsetAndSize::open
CidToOffsetAndSize_open(b) ==
    LET r == open(b)
    IN  IF r.state = "Failed" THEN NoWrapper(r.error)
        ELSE IF r.header.value_size # VALUE_SIZE
        THEN NoWrapper(ValueSizeMismatch(VALUE_SIZE, r.header.value_size))
        ELSE IF kind_check(r, CidToOffsetAndSize_KIND).kind # "Ok"
        THEN NoWrapper(kind_check(r, CidToOffsetAndSize_KIND))
        ELSE Wrapper("cid-to-offset-and-size", r)

\* SlotToCid::lookup(slot): the key is slot.to_le_bytes().
SlotToCid_lookup(w, slot) == lookup(w.reader, slot)

\* SigToCid::lookup without the length test.
SigToCid_lookup_unchecked(w, signature) == lookup(w.reader, signature)

\* SigToCid::lookup
SigToCid_lookup(w, signature) ==
    IF Len(signature) # SIGNATURE_SIZE
    THEN [res |-> InvalidFormat("Invalid signature size"), reads |-> <<>>]
    ELSE lookup(w.reader, signature)

\* CidToOffsetAndSize::lookup
CidToOffsetAndSize_lookup(w, cid_bytes) ==
    LET found == lookup(w.reader, cid_bytes)
        value == found.res.value
    IN  IF found.res.kind # "Ok" THEN found
        ELSE IF Len(value) # VALUE_SIZE
        THEN [res |-> InvalidFormat("Invalid value size"), reads |-> found.reads]
        ELSE [res |-> [kind |-> "Ok",
                       offset |-> bytes_to_uint48(SubSeq(value, 1, 6)),
                       size |-> bytes_to_uint24(SubSeq(value, 7, 9))],
              reads |-> found.reads]

\* encode_offset_and_size
encode_offset_and_size(offset, size) ==
    [panic |-> uint48_to_bytes(offset).panic \/ uint24_to_bytes(size).panic,
     bytes |-> uint48_to_bytes(offset).bytes \o uint24_to_bytes(size).bytes]

(***************************************************************************)
(* SpecHeader: Header::load and the constructors over generated buffers    *)
(***************************************************************************)

InitHeader ==
    /\ gen \in HeaderGens
    /\ buf = HeaderBytes(gen)
    /\ hres = NONE
    /\ reader = Unopened
    /\ overflow_checks = FALSE
    /\ hsel = 0
    /\ bucket = NONE
    /\ bkey = <<>>
    /\ bres = NONE
    /\ call = NoCall
    /\ first = <<>>
    /\ threads = <<>>
    /\ cursors = <<>>
    /\ wrapper = NONE
    /\ dump = NONE

\* What the header operations leave alone.
others == <<overflow_checks, hsel, bucket, bkey, bres, call, first, threads, cursors,
           wrapper, dump>>

LoadHeader ==
    /\ hres = NONE
    /\ hres' = Header_load(buf)
    /\ UNCHANGED <<buf, gen, reader, others>>

Open ==
    /\ hres # NONE
    /\ reader = Unopened
    /\ reader' = open(buf)
    /\ UNCHANGED <<buf, gen, hres, others>>

FromSlice ==
    /\ hres # NONE
    /\ reader = Unopened
    /\ reader' = from_slice(buf)
    /\ UNCHANGED <<buf, gen, hres, others>>

NextHeader == LoadHeader \/ Open \/ FromSlice

SpecHeader == InitHeader /\ [][NextHeader]_vars

(***************************************************************************)
(* SpecBucket: Bucket::lookup over generated buckets                       *)
(***************************************************************************)

\* Most entries in a generated bucket.
MaxEntries == 5

\* The keys looked up.
Keys == { <<1>>, <<2>> }

\* The functions standing for xxh64.
HashSels == 0..(Len(HashVals) - 1)

RECURSIVE SortU64(_)
\* The ascending sequence of a set of u64.
SortU64(S) ==
    IF S = {} THEN <<>>
    ELSE LET m == CHOOSE x \in S : \A y \in S \ {x} : U64Less(x, y)
         IN  <<m>> \o SortU64(S \ {m})

RECURSIVE InOrder(_, _)
\* The in-order walk of the implicit tree of n nodes below node i (children
\* of i at 2i+1 and 2i+2).
InOrder(i, n) ==
    IF i >= n THEN <<>>
    ELSE InOrder(2 * i + 1, n) \o <<i>> \o InOrder(2 * i + 2, n)

\* The Eytzinger order of an ascending sequence: the array whose in-order
\* walk is the sequence.
Eytzinger(sorted) ==
    LET n == Len(sorted)
        walk == InOrder(0, n)
    IN  [j \in 1..n |-> sorted[CHOOSE k \in 1..n : walk[k] = j - 1]]

\* The masked hashes entries of a bucket with this hash_len can carry.
HashUniverse(hash_len) ==
    { MaskBytes(HashVals[i], hash_len) : i \in 1..(Len(HashVals) - 1) }

\* The value stored with the k-th smallest hash.
GenValue(k, value_width) == [i \in 1..value_width |-> 10 * i + k]

\* The generated buckets: at most MaxEntries entries with distinct hashes,
\* stored in Eytzinger order of the ascending hash sequence, or in ascending
\* order itself, or ("mixed") in descending order and followed by a second
\* entry, of another value, with the largest hash.
BucketGens ==
    UNION { UNION { { [ hash_len |-> hl, value_width |-> vw, layout |-> lay, hashes |-> S ] :
                       lay \in {"eytzinger", "sorted", "mixed"}, vw \in {1, 2} } :
                    S \in { T \in SUBSET HashUniverse(hl) : Cardinality(T) <= MaxEntries } } :
            hl \in {1, 2, 8} }

\* The entries of a generated bucket in stored order.
GenEntries(g) ==
    LET sorted == SortU64(g.hashes)
        ents == [k \in 1..Len(sorted) |->
                    [hash |-> sorted[k], value |-> GenValue(k, g.value_width)]]
        n == Len(ents)
    IN  CASE g.layout = "eytzinger" -> Eytzinger(ents)
          [] g.layout = "sorted" -> ents
          [] OTHER -> IF n = 0 THEN ents
                      ELSE [k \in 1..n |-> ents[n + 1 - k]]
                           \o <<[hash |-> ents[n].hash,
                                 value |-> GenValue(n + 1, g.value_width)]>>

RECURSIVE Concat(_)
Concat(seqs) == IF seqs = <<>> THEN <<>> ELSE seqs[1] \o Concat(Tail(seqs))

\* The Bucket get_bucket builds over the marshalled entries of g.
GenBucket(g) ==
    LET ents == GenEntries(g)
        header == [hash_domain |-> 0, num_entries |-> Len(ents),
                   hash_len |-> g.hash_len, file_offset |-> 0]
        d == BucketDescriptor_new(header, g.value_width)
    IN  Bucket_new(d, Cursor_new(Concat([k \in 1..Len(ents) |->
                                  marshal_entry(d, ents[k], [i \in 1..d.stride |-> 0]).buf]), 0), 0)

InitBucket ==
    /\ overflow_checks \in BOOLEAN
    /\ hsel \in HashSels
    /\ gen \in BucketGens
    /\ bucket = GenBucket(gen)
    /\ bkey \in Keys
    /\ bres = NONE
    /\ buf = <<>>
    /\ hres = NONE
    /\ reader = Unopened
    /\ call = NoCall
    /\ first = <<>>
    /\ threads = <<>>
    /\ cursors = <<>>
    /\ wrapper = NONE
    /\ dump = NONE

\* Bucket::lookup(key)
BucketLookup ==
    /\ bres = NONE
    /\ bres' = Bucket_lookup(bucket, bkey)
    /\ UNCHANGED <<buf, gen, hres, reader, overflow_checks, hsel, bucket, bkey,
                   call, first, threads, cursors, wrapper, dump>>

NextBucket == BucketLookup

SpecBucket == InitBucket /\ [][NextBucket]_vars

(***************************************************************************)
(* SpecEntry: BucketDescriptor::new, marshal_entry and unmarshal_entry     *)
(* over generated entries, as test_entry_marshal_unmarshal chains them     *)
(***************************************************************************)

\* The descriptors' fields and the entries: hashes below and above
\* 2^(8 * hash_len), buffers of stride bytes and longer.
EntryGens ==
    [ hash_len : {1, 3, 8},
      value_size : {1, 4, 255},
      hash : { HashVals[i] : i \in 1..Len(HashVals) }
             \cup { FixtureVals[i] : i \in 1..Len(FixtureVals) },
      spare : {0, 2} ]

\* The entry marshalled: the hash, and a value of value_width bytes.
GenEntry(g) ==
    [hash |-> g.hash, value |-> [i \in 1..(g.value_size % 256) |-> (3 * i + 1) % 256]]

InitEntry ==
    /\ overflow_checks \in BOOLEAN
    /\ gen \in EntryGens
    /\ bucket = NONE
    /\ buf = <<>>
    /\ call = NoCall
    /\ bres = NONE
    /\ hsel = 0
    /\ bkey = <<>>
    /\ hres = NONE
    /\ reader = Unopened
    /\ first = <<>>
    /\ threads = <<>>
    /\ cursors = <<>>
    /\ wrapper = NONE
    /\ dump = NONE

\* What the entry operations leave alone.
unbucketed == <<gen, hres, reader, overflow_checks, hsel, bkey, first, threads, cursors,
               wrapper, dump>>

\* BucketDescriptor::new(header, value_size), then vec![0u8; desc.stride + spare]
NewDescriptor ==
    /\ bucket = NONE
    /\ LET d == BucketDescriptor_new([hash_domain |-> 0, num_entries |-> 1,
                                      hash_len |-> gen.hash_len, file_offset |-> 0],
                                     gen.value_size)
       IN  /\ bucket' = d
           /\ buf' = IF d.panic THEN <<>> ELSE [i \in 1..(d.stride + gen.spare) |-> 0]
    /\ UNCHANGED <<call, bres, unbucketed>>

\* desc.marshal_entry(&entry, &mut buf)
MarshalEntry ==
    /\ bucket # NONE
    /\ ~bucket.panic
    /\ call = NoCall
    /\ LET m == marshal_entry(bucket, GenEntry(gen), buf)
       IN  /\ buf' = m.buf
           /\ call' = [op |-> "marshal_entry",
                       res |-> IF m.panic THEN Panic("marshal_entry") ELSE Ok(<<>>)]
    /\ UNCHANGED <<bucket, bres, unbucketed>>

\* desc.unmarshal_entry(&buf)
UnmarshalEntry ==
    /\ call.op = "marshal_entry"
    /\ call.res.kind = "Ok"
    /\ bres = NONE
    /\ bres' = unmarshal_entry(bucket, buf)
    /\ UNCHANGED <<bucket, buf, call, unbucketed>>

NextEntry == NewDescriptor \/ MarshalEntry \/ UnmarshalEntry

SpecEntry == InitEntry /\ [][NextEntry]_vars

(***************************************************************************)
(* Index files: a header, the bucket table, then the buckets' entries      *)
(***************************************************************************)

\* The function standing for xxh64 when whole files are read: it sends the
\* two keys to different buckets of a two-bucket file.
ReaderSels == {1}

\* A well-formed bucket of n entries.
Good(hash_len, n, layout) ==
    [hash_len |-> hash_len, num_entries |-> n, stored |-> n, layout |-> layout,
     place |-> "packed"]

\* A bucket record that declares `declared` entries where `stored` are laid out.
Odd(hash_len, declared, stored, place) ==
    [hash_len |-> hash_len, num_entries |-> declared, stored |-> stored,
     layout |-> "eytzinger", place |-> place]

\* Three entries, two entries, and no entry.
ShapeA == Good(1, 3, "eytzinger")

ShapeB == Good(2, 2, "eytzinger")

ShapeC == Good(1, 0, "eytzinger")

\* Bucket records as a file's bytes may hold them: hash_len 0, 9, 32 and 255,
\* a file_offset past the end, more entries declared than the file holds,
\* entries in ascending order.
Shapes ==
    { ShapeA, ShapeB, ShapeC,
      Odd(0, 1, 1, "packed"), Odd(9, 1, 1, "packed"), Odd(32, 1, 1, "packed"),
      Odd(255, 1, 1, "packed"), Odd(1, 1, 1, "beyond"), Odd(1, 4, 1, "packed"),
      Good(1, 3, "sorted") }

\* Bucket tables: one bucket of any shape, or ShapeA beside any shape.
Tables ==
    { <<x>> : x \in Shapes } \cup { <<ShapeA, x>> : x \in Shapes }
    \cup { <<x, ShapeA>> : x \in Shapes }

\* The generated files.  num_buckets is the header's field; a table that is
\* one record short of it is cut off by the end of the file, and a file with
\* num_buckets 0 is one no constructor accepts.
IndexGens ==
    { [value_size |-> 2, num_buckets |-> Len(t), table |-> t, pairs |-> <<>>] :
        t \in Tables }
    \cup { [value_size |-> vs, num_buckets |-> Len(t), table |-> t, pairs |-> <<>>] :
            vs \in {255, 256}, t \in { <<ShapeA>>, <<ShapeC>>, <<Odd(0, 1, 1, "packed")>> } }
    \cup { [value_size |-> 2, num_buckets |-> Len(t) + 1, table |-> t, pairs |-> <<>>] :
            t \in { <<ShapeA>>, <<ShapeC>> } }
    \cup { [value_size |-> 2, num_buckets |-> 1, table |-> <<ShapeA>>, pairs |-> ps] :
            ps \in { << <<(<<1>>), (<<7, 8>>)>>, <<(<<1>>), (<<>>)>> >>,
                     << <<(<<1>>), (<<>>)>>, <<(<<1>>), (<<7, 8>>)>> >>,
                     << <<(<<2, 3>>), (<<9>>)>> >> } }
    \cup { [value_size |-> 2, num_buckets |-> 0, table |-> <<>>, pairs |-> <<>>] }
    \cup { [value_size |-> 255, num_buckets |-> 1,
            table |-> <<Odd(1, 1, 0, "beyond")>>, pairs |-> <<>>] }

\* The entry bytes of bucket x in a file of this value_size: entries of the
\* true stride (hash_len + value_size) with distinct hashes, in the layout's
\* order when the hash fits a u64, filler bytes otherwise.
ShapeData(x, value_size) ==
    IF x.hash_len \in 1..8
    THEN LET sorted == SubSeq(SortU64(HashUniverse(x.hash_len)), 1, x.stored)
             ents == [k \in 1..x.stored |->
                         [hash |-> sorted[k], value |-> GenValue(k, value_size)]]
             laid == IF x.layout = "eytzinger" THEN Eytzinger(ents) ELSE ents
         IN  Concat([k \in 1..x.stored |->
                        SubSeq(laid[k].hash, 1, x.hash_len) \o laid[k].value])
    ELSE [i \in 1..(x.stored * (x.hash_len + value_size)) |-> (7 * i) % 256]

RECURSIVE DataBefore(_, _, _)
\* The entry bytes of the first i buckets of the table.
DataBefore(table, value_size, i) ==
    IF i = 0 THEN <<>>
    ELSE DataBefore(table, value_size, i - 1) \o ShapeData(table[i], value_size)

\* The 16-byte record of a bucket whose entries start at file_offset.
BucketRecord(x, file_offset) ==
    u32_le_bytes(0) \o u32_le_bytes(x.num_entries) \o <<x.hash_len, 0>>
    \o SubSeq(u64_le_bytes(file_offset), 1, 6)

\* The bytes of a generated file.
IndexBytes(g) ==
    LET block == IF g.pairs = <<>> THEN <<>> ELSE encode_metadata(g.pairs)
        header == MAGIC \o u32_le_bytes(13 + Len(block))
                  \o u64_le_bytes(g.value_size) \o u32_le_bytes(g.num_buckets)
                  \o <<VERSION>> \o block
        n == Len(g.table)
        data == DataBefore(g.table, g.value_size, n)
        data_start == Len(header) + n * BucketHeader_SIZE
        end == data_start + Len(data)
        offset(i) == IF g.table[i].place = "beyond" THEN end + 5
                     ELSE data_start + Len(DataBefore(g.table, g.value_size, i - 1))
    IN  header \o Concat([i \in 1..n |-> BucketRecord(g.table[i], offset(i))]) \o data

(***************************************************************************)
(* Spec: the calls on one reader, one after the other                      *)
(***************************************************************************)

\* An index past every generated table, standing for the indices up to u32::MAX.
BigIndex == 67108864

\* The indices get_bucket is called with.
Indices == {0, 1, 2, BigIndex}

\* The metadata keys asked for.
MetaKeys == { <<1>>, <<5>> }

Init ==
    /\ overflow_checks \in BOOLEAN
    /\ hsel \in ReaderSels
    /\ gen \in IndexGens
    /\ buf = IndexBytes(gen)
    /\ hres = Header_load(buf)
    /\ reader \in {open(buf), from_slice(buf)}
    /\ call = NoCall
    /\ first = [k \in Keys |-> NONE]
    /\ bucket = NONE
    /\ bkey = <<>>
    /\ bres = NONE
    /\ threads = <<>>
    /\ cursors = <<>>
    /\ wrapper = NONE
    /\ dump = NONE

\* What the calls on the reader leave alone.
fixed == <<buf, gen, hres, overflow_checks, hsel, bucket, bkey, bres, threads, cursors,
          wrapper, dump>>

\* reader.lookup(key)
Lookup(k) ==
    /\ reader.state = "Opened"
    /\ LET r == IF reader.backing = "mmap" THEN lookup(reader, k)
                ELSE Slice_lookup(reader, k)
       IN  /\ call' = [op |-> "lookup", key |-> k, prefetch |-> reader.prefetch,
                       index |-> bucket_hash(reader.header, k),
                       res |-> r.res, reads |-> r.reads]
           /\ first' = IF first[k] # NONE THEN first
                       ELSE [first EXCEPT ![k] = [res |-> r.res,
                                                  prefetch |-> reader.prefetch]]
    /\ UNCHANGED <<reader, fixed>>

\* reader.get_bucket(index)
GetBucket(i) ==
    /\ reader.state = "Opened"
    /\ LET r == IF reader.backing = "mmap" THEN get_bucket(reader, i)
                ELSE Slice_get_bucket(reader, i)
       IN  call' = [op |-> "get_bucket", key |-> <<>>, prefetch |-> reader.prefetch,
                    index |-> i, res |-> r.res, reads |-> r.reads]
    /\ UNCHANGED <<reader, first, fixed>>

\* reader.lookup_bucket(key)
LookupBucket(k) ==
    /\ reader.state = "Opened"
    /\ LET r == IF reader.backing = "mmap" THEN lookup_bucket(reader, k)
                ELSE Slice_lookup_bucket(reader, k)
       IN  call' = [op |-> "lookup_bucket", key |-> k, prefetch |-> reader.prefetch,
                    index |-> bucket_hash(reader.header, k),
                    res |-> r.res, reads |-> r.reads]
    /\ UNCHANGED <<reader, first, fixed>>

\* reader.get_metadata(key)
GetMetadata(k) ==
    /\ reader.state = "Opened"
    /\ LET m == get_metadata(reader, k)
       IN  call' = [op |-> "get_metadata", key |-> k, prefetch |-> reader.prefetch,
                    index |-> 0,
                    res |-> IF m.some THEN [kind |-> "Some", value |-> m.value]
                            ELSE NONE,
                    reads |-> <<>>]
    /\ UNCHANGED <<reader, first, fixed>>

\* reader.bucket_indices().collect()
BucketIndices ==
    /\ reader.state = "Opened"
    /\ call' = [op |-> "bucket_indices", key |-> <<>>, prefetch |-> reader.prefetch,
                index |-> 0,
                res |-> [kind |-> "Indices", value |-> bucket_indices(reader)],
                reads |-> <<>>]
    /\ UNCHANGED <<reader, first, fixed>>

\* reader.set_prefetch(enabled)
SetPrefetch(enabled) ==
    /\ reader.state = "Opened"
    /\ reader' = set_prefetch(reader, enabled)
    /\ call' = [op |-> "set_prefetch", key |-> <<>>, prefetch |-> enabled,
                index |-> 0, res |-> NONE, reads |-> <<>>]
    /\ UNCHANGED <<first, fixed>>

Next ==
    \/ \E k \in Keys : Lookup(k)
    \/ \E i \in Indices : GetBucket(i)
    \/ \E k \in Keys : LookupBucket(k)
    \/ \E k \in MetaKeys : GetMetadata(k)
    \/ BucketIndices
    \/ \E e \in BOOLEAN : SetPrefetch(e)

Spec == Init /\ [][Next]_vars

(***************************************************************************)
(* SpecFixture: the calls on a reader over the test fixtures               *)
(***************************************************************************)

\* The functions standing for xxh64 over the fixtures.
FixtureSels == Len(HashVals)..(Len(HashVals) + Len(FixtureVals) - 1)

\* create_test_index of reader.rs: one bucket, hash_len 3, value_size 4.
UnitFixture ==
    MAGIC \o u32_le_bytes(13) \o u64_le_bytes(4) \o u32_le_bytes(1) \o <<VERSION>>
    \o u32_le_bytes(0) \o u32_le_bytes(2) \o <<3, 0>> \o SubSeq(u64_le_bytes(25 + 16), 1, 6)
    \o <<17, 17, 17>> \o <<1, 2, 3, 4>>
    \o <<34, 34, 34>> \o <<5, 6, 7, 8>>

\* create_test_index_data of the integration test: two buckets.
MultiFixture ==
    MAGIC \o u32_le_bytes(13) \o u64_le_bytes(4) \o u32_le_bytes(2) \o <<VERSION>>
    \o u32_le_bytes(0) \o u32_le_bytes(2) \o <<3, 0>> \o SubSeq(u64_le_bytes(25 + 32), 1, 6)
    \o u32_le_bytes(1) \o u32_le_bytes(1) \o <<3, 0>>
    \o SubSeq(u64_le_bytes(25 + 32 + 14), 1, 6)
    \o <<17, 17, 17>> \o <<1, 2, 3, 4>>
    \o <<34, 34, 34>> \o <<5, 6, 7, 8>>
    \o <<51, 51, 51>> \o <<9, 10, 11, 12>>

InitFixture ==
    /\ overflow_checks \in BOOLEAN
    /\ hsel \in FixtureSels
    /\ gen \in { [fixture |-> "unit"], [fixture |-> "multi"] }
    /\ buf = (IF gen.fixture = "unit" THEN UnitFixture ELSE MultiFixture)
    /\ hres = Header_load(buf)
    /\ reader \in {open(buf), from_slice(buf)}
    /\ call = NoCall
    /\ first = [k \in Keys |-> NONE]
    /\ bucket = NONE
    /\ bkey = <<>>
    /\ bres = NONE
    /\ threads = <<>>
    /\ cursors = <<>>
    /\ wrapper = NONE
    /\ dump = NONE

SpecFixture == InitFixture /\ [][Next]_vars

(***************************************************************************)
(* SpecWrap: the typed wrappers over single-bucket files                   *)
(***************************************************************************)

\* The functions standing for xxh64 under the wrappers.
WrapSels == {1, 7}

\* Offsets below 2^48: 0, 2^48 - 1, 0x123456789ABC, 1, 256, 2^40.
OffsetSamples ==
    << U64Zero,
       <<255, 255, 255, 255, 255, 255, 0, 0>>,
       <<188, 154, 120, 86, 52, 18, 0, 0>>,
       <<1, 0, 0, 0, 0, 0, 0, 0>>,
       <<0, 1, 0, 0, 0, 0, 0, 0>>,
       <<0, 0, 0, 0, 0, 1, 0, 0>> >>

\* Sizes below 2^24: 0xDEF012, 2^24 - 1, 0, 1, 65536, 255.
SizeSamples == <<14610450, MAX_UINT24, 0, 1, 65536, 255>>

\* The metadata of the generated files: index_kind absent, present once with
\* each wrapper's kind or with an empty value, and present twice.
KindPairs ==
    { <<>>,
      << <<KIND_KEY, SlotToCid_KIND>> >>,
      << <<KIND_KEY, SigToCid_KIND>> >>,
      << <<KIND_KEY, CidToOffsetAndSize_KIND>> >>,
      << <<KIND_KEY, <<>> >> >>,
      << <<(<<1>>), SigToCid_KIND>> >>,
      << <<KIND_KEY, CidToOffsetAndSize_KIND>>, <<KIND_KEY, SlotToCid_KIND>> >>,
      << <<KIND_KEY, SigToCid_KIND>>, <<KIND_KEY, CidToOffsetAndSize_KIND>> >> }

\* The generated files: value_size 9, 8 or 265, and which samples are stored.
WrapGens ==
    [ value_size : {9, 8, 265}, pairs : KindPairs, shift : {0, 3} ]

\* The entries of the one bucket (hash_len 1): the k-th smallest hash carries
\* the encoding of the (shift + k)-th offset and size when value_size is 9.
WrapEntries(g) ==
    LET n == IF g.value_size > 255 THEN 1 ELSE 3
        sorted == SubSeq(SortU64(HashUniverse(1)), 1, n)
    IN  Eytzinger([k \in 1..n |->
            [hash |-> sorted[k],
             value |-> IF g.value_size = VALUE_SIZE
                       THEN encode_offset_and_size(OffsetSamples[g.shift + k],
                                                   SizeSamples[g.shift + k]).bytes
                       ELSE GenValue(k, g.value_size)]])

\* The bytes of a generated file.
WrapBytes(g) ==
    LET block == IF g.pairs = <<>> THEN <<>> ELSE encode_metadata(g.pairs)
        header == MAGIC \o u32_le_bytes(13 + Len(block))
                  \o u64_le_bytes(g.value_size) \o u32_le_bytes(1)
                  \o <<VERSION>> \o block
        ents == WrapEntries(g)
        record == [hash_len |-> 1, num_entries |-> Len(ents)]
    IN  header \o BucketRecord(record, Len(header) + BucketHeader_SIZE)
        \o Concat([k \in 1..Len(ents) |-> SubSeq(ents[k].hash, 1, 1) \o ents[k].value])

\* The keys the wrappers are asked for: signatures of 64 bytes, and of 63, 65,
\* 1 and 0 bytes.
Signature(n, x) == [i \in 1..n |-> x]

SigKeys == { Signature(64, 1), Signature(64, 2), Signature(63, 1), Signature(65, 1),
             Signature(1, 1), Signature(0, 0) }

\* The slots looked up, as u64.
Slots == { <<1, 0, 0, 0, 0, 0, 0, 0>>, <<0, 0, 0, 0, 0, 0, 0, 1>> }

InitWrap ==
    /\ overflow_checks \in BOOLEAN
    /\ hsel \in WrapSels
    /\ gen \in WrapGens
    /\ buf = WrapBytes(gen)
    /\ hres = Header_load(buf)
    /\ reader = Unopened
    /\ wrapper = NONE
    /\ dump = NONE
    /\ call = NoCall
    /\ first = <<>>
    /\ bucket = NONE
    /\ bkey = <<>>
    /\ bres = NONE
    /\ threads = <<>>
    /\ cursors = <<>>

\* What the wrappers' calls leave alone.
unwrapped == <<buf, gen, hres, reader, overflow_checks, hsel, bucket, bkey, bres, first,
              threads, cursors, dump>>

\* SlotToCid::open(path)
OpenSlotToCid ==
    /\ wrapper = NONE
    /\ wrapper' = [of |-> "slot-to-cid", it |-> SlotToCid_open(buf)]
    /\ UNCHANGED <<call, unwrapped>>

\* SigToCid::open(path)
OpenSigToCid ==
    /\ wrapper = NONE
    /\ wrapper' = [of |-> "sig-to-cid", it |-> SigToCid_open(buf)]
    /\ UNCHANGED <<call, unwrapped>>

\* CidToOffsetAndSize::open(path)
OpenCidToOffsetAndSize ==
    /\ wrapper = NONE
    /\ wrapper' = [of |-> "cid-to-offset-and-size", it |-> CidToOffsetAndSize_open(buf)]
    /\ UNCHANGED <<call, unwrapped>>

\* The wrapper of this kind has been built.
Built(kind) ==
    /\ wrapper # NONE
    /\ wrapper.of = kind
    /\ wrapper.it.state = "Opened"

\* SlotToCid::lookup(slot)
SlotLookup(slot) ==
    /\ Built("slot-to-cid")
    /\ LET r == SlotToCid_lookup(wrapper.it, slot)
       IN  call' = [op |-> "slot_lookup", key |-> slot, res |-> r.res, reads |-> r.reads]
    /\ UNCHANGED <<wrapper, unwrapped>>

\* SigToCid::lookup(signature)
SigLookup(signature) ==
    /\ Built("sig-to-cid")
    /\ LET r == SigToCid_lookup(wrapper.it, signature)
       IN  call' = [op |-> "sig_lookup", key |-> signature, res |-> r.res,
                    reads |-> r.reads]
    /\ UNCHANGED <<wrapper, unwrapped>>

\* CidToOffsetAndSize::lookup(cid_bytes)
CidLookup(cid_bytes) ==
    /\ Built("cid-to-offset-and-size")
    /\ LET r == CidToOffsetAndSize_lookup(wrapper.it, cid_bytes)
       IN  call' = [op |-> "cid_lookup", key |-> cid_bytes, res |-> r.res,
                    reads |-> r.reads]
    /\ UNCHANGED <<wrapper, unwrapped>>

NextWrap ==
    \/ OpenSlotToCid
    \/ OpenSigToCid
    \/ OpenCidToOffsetAndSize
    \/ \E slot \in Slots : SlotLookup(slot)
    \/ \E signature \in SigKeys : SigLookup(signature)
    \/ \E cid_bytes \in Keys \cup {Signature(3, 1)} : CidLookup(cid_bytes)

SpecWrap == InitWrap /\ [][NextWrap]_vars

(***************************************************************************)
(* SpecDump: bin/dump_slots.rs, main over two index files and a slot range *)
(***************************************************************************)

\* Most slots a run is followed through.
MaxSlots == 3

\* i32::MAX, the largest value of the three tallies
I32_MAX == 2147483647

\* u64::MAX
U64_MAX == <<255, 255, 255, 255, 255, 255, 255, 255>>

RECURSIVE U64AddFrom(_, _, _)
\* Bytes i..8 of a + carry, then the carry out of byte 8.
U64AddFrom(a, i, carry) ==
    IF i > 8 THEN <<carry>>
    ELSE <<(a[i] + carry) % 256>> \o U64AddFrom(a, i + 1, (a[i] + carry) \div 256)

\* a + 1 as u64: whether it overflows, and the wrapped sum
U64Inc(a) ==
    LET s == U64AddFrom(a, 1, 1)
    IN  [overflow |-> s[9] = 1, value |-> SubSeq(s, 1, 8)]

RECURSIVE U64SubFrom(_, _, _, _)
\* Bytes i..8 of a - b - borrow, then the borrow out of byte 8.
U64SubFrom(a, b, i, borrow) ==
    IF i > 8 THEN <<borrow>>
    ELSE LET d == a[i] - b[i] - borrow
         IN  <<(d + 256) % 256>> \o U64SubFrom(a, b, i + 1, IF d < 0 THEN 1 ELSE 0)

\* a - b as u64: whether it overflows, and the wrapped difference
U64Sub(a, b) ==
    LET d == U64SubFrom(a, b, 1, 0)
    IN  [overflow |-> d[9] = 1, value |-> SubSeq(d, 1, 8)]

\* The slot-to-cid files of the runs: one of value_size 9 with its kind, one
\* of value_size 8 without metadata.
SlotFiles ==
    { [value_size |-> 9, pairs |-> << <<KIND_KEY, SlotToCid_KIND>> >>, shift |-> 0],
      [value_size |-> 8, pairs |-> <<>>, shift |-> 0] }

\* The cid-to-offset-and-size files of the runs; the one of value_size 8 is
\* refused by open.
CidFiles ==
    { [value_size |-> 9, pairs |-> << <<KIND_KEY, CidToOffsetAndSize_KIND>> >>, shift |-> 0],
      [value_size |-> 9, pairs |-> <<>>, shift |-> 3],
      [value_size |-> 8, pairs |-> <<>>, shift |-> 0] }

\* The slot ranges of the runs, each with the slots it holds in ascending
\* order (of the whole u64 range, the first MaxSlots).
Ranges ==
    { [start |-> u64_le_bytes(0), end |-> u64_le_bytes(2),
       slots |-> <<u64_le_bytes(0), u64_le_bytes(1), u64_le_bytes(2)>>],
      [start |-> u64_le_bytes(1), end |-> u64_le_bytes(1),
       slots |-> <<u64_le_bytes(1)>>],
      [start |-> u64_le_bytes(255), end |-> u64_le_bytes(257),
       slots |-> <<u64_le_bytes(255), u64_le_bytes(256), u64_le_bytes(257)>>],
      [start |-> <<254, 255, 255, 255, 255, 255, 255, 255>>, end |-> U64_MAX,
       slots |-> << <<254, 255, 255, 255, 255, 255, 255, 255>>, U64_MAX >>],
      [start |-> U64Zero, end |-> U64_MAX,
       slots |-> [k \in 1..MaxSlots |-> u64_le_bytes(k - 1)]] }

DumpGens == [ slot_file : SlotFiles, cid_file : CidFiles, range : Ranges ]

InitDump ==
    /\ overflow_checks \in BOOLEAN
    /\ hsel \in WrapSels
    /\ gen \in DumpGens
    /\ buf = <<>>
    /\ hres = NONE
    /\ reader = Unopened
    /\ wrapper = NONE
    /\ call = NoCall
    /\ first = <<>>
    /\ bucket = NONE
    /\ bkey = <<>>
    /\ bres = NONE
    /\ threads = <<>>
    /\ cursors = <<>>
    /\ dump = [pc |-> "args",
               slot_index_path |-> WrapBytes(gen.slot_file),
               cid_index_path |-> WrapBytes(gen.cid_file),
               start_slot |-> gen.range.start,
               end_slot |-> gen.range.end]

\* What main leaves alone.
undumped == <<buf, gen, hres, reader, overflow_checks, hsel, bucket, bkey, bres, call,
             first, threads, cursors, wrapper>>

\* tally += 1 on an i32: a panic of the checked build at i32::MAX, a wrap to
\* i32::MIN otherwise.
Tally(d, field) ==
    IF d[field] = I32_MAX
    THEN IF overflow_checks
         THEN [pc |-> "panic", at |-> field, visited |-> d.visited]
         ELSE [d EXCEPT ![field] = -I32_MAX - 1]
    ELSE [d EXCEPT ![field] = @ + 1]

\* main from "Determine slot range" to the loop, with both indexes open: the
\* range is taken from the arguments, the tallies start at 0 and
\* total = end - start + 1 is computed in u64.
Started(args, slot_index, cid_index, span, total) ==
    IF overflow_checks /\ (span.overflow \/ total.overflow)
    THEN [pc |-> "panic", at |-> "total", visited |-> <<>>]
    ELSE [pc |-> IF U64Less(args.end_slot, args.start_slot) THEN "summary" ELSE "loop",
          slot_index |-> slot_index, cid_index |-> cid_index,
          start |-> args.start_slot, end |-> args.end_slot,
          slot |-> args.start_slot,
          found |-> 0, not_found |-> 0, cid_not_found |-> 0,
          total |-> total.value, visited |-> <<>>]

\* "Load indexes": an error of either open returns from main.
Loaded(args, slot_index, cid_index) ==
    IF slot_index.state # "Opened" THEN [pc |-> "error", error |-> slot_index.error]
    ELSE IF cid_index.state # "Opened" THEN [pc |-> "error", error |-> cid_index.error]
    ELSE Started(args, slot_index, cid_index,
                 U64Sub(args.end_slot, args.start_slot),
                 U64Inc(U64Sub(args.end_slot, args.start_slot).value))

\* main up to the loop
DumpStart ==
    /\ dump.pc = "args"
    /\ dump' = Loaded(dump, SlotToCid_open(dump.slot_index_path),
                      CidToOffsetAndSize_open(dump.cid_index_path))
    /\ UNCHANGED undumped

\* "match cid_index.lookup(&cid_bytes)": Ok counts as found, Err as
\* cid_not_found; a panic inside the lookup unwinds main.
MatchCid(d, cid_res) ==
    IF cid_res.kind = "Panic"
    THEN [pc |-> "panic", at |-> "cid_index.lookup", visited |-> d.visited]
    ELSE IF cid_res.kind = "Ok" THEN Tally(d, "found")
    ELSE Tally(d, "cid_not_found")

\* "match slot_index.lookup(slot)": Ok goes on to the second index, Err
\* counts as not_found; a panic inside the lookup unwinds main.
MatchSlot(d, slot_res) ==
    IF slot_res.kind = "Panic"
    THEN [pc |-> "panic", at |-> "slot_index.lookup", visited |-> d.visited]
    ELSE IF slot_res.kind = "Ok"
    THEN MatchCid(d, CidToOffsetAndSize_lookup(d.cid_index, slot_res.value).res)
    ELSE Tally(d, "not_found")

\* The body of the loop for d.slot
DumpBody(d) == MatchSlot(d, SlotToCid_lookup(d.slot_index, d.slot).res)

\* The step of the inclusive range after the body: it ends after slot = end.
StepRange(d) ==
    IF d.pc = "panic" THEN d
    ELSE IF d.slot = d.end THEN [d EXCEPT !.pc = "summary"]
    ELSE [d EXCEPT !.slot = U64Inc(@).value]

\* One iteration of "for slot in start..=end"
DumpSlot ==
    /\ dump.pc = "loop"
    /\ Len(dump.visited) < MaxSlots
    /\ dump' = StepRange(DumpBody([dump EXCEPT !.visited = Append(@, dump.slot)]))
    /\ UNCHANGED undumped

\* The summary after the loop, and Ok(()).
DumpSummary ==
    /\ dump.pc = "summary"
    /\ dump' = [dump EXCEPT !.pc = "done"]
    /\ UNCHANGED undumped

NextDump ==
    \/ DumpStart
    \/ DumpSlot
    \/ DumpSummary

SpecDump == InitDump /\ [][NextDump]_vars

(***************************************************************************)
(* SpecHash: Header::bucket_hash over keys, hash functions and bucket counts *)
(***************************************************************************)

\* Most buckets of a header bucket_hash is computed for.
MaxBuckets == 7

\* The header-only file with this num_buckets.
HashFile(n) ==
    MAGIC \o u32_le_bytes(13) \o u64_le_bytes(1) \o u32_le_bytes(n) \o <<VERSION>>

InitHash ==
    /\ hsel \in HashSels
    /\ bkey \in Keys
    /\ gen \in { [num_buckets |-> n] : n \in 1..MaxBuckets }
    /\ buf = HashFile(gen.num_buckets)
    /\ hres = Header_load(buf)
    /\ reader = open(buf)
    /\ call = NoCall
    /\ overflow_checks \in BOOLEAN
    /\ first = <<>>
    /\ bucket = NONE
    /\ bres = NONE
    /\ threads = <<>>
    /\ cursors = <<>>
    /\ wrapper = NONE
    /\ dump = NONE

\* reader.header().bucket_hash(key)
BucketHash ==
    /\ call = NoCall
    /\ call' = [op |-> "bucket_hash", res |-> bucket_hash(reader.header, bkey),
                again |-> -1]
    /\ UNCHANGED <<buf, gen, hres, reader, overflow_checks, hsel, bucket, bkey, bres,
                   first, threads, cursors, wrapper, dump>>

\* The same call on a second reader built from the same bytes.
BucketHashReopened ==
    /\ call.op = "bucket_hash"
    /\ call.again = -1
    /\ call' = [call EXCEPT !.again = bucket_hash(from_slice(buf).header, bkey)]
    /\ UNCHANGED <<buf, gen, hres, reader, overflow_checks, hsel, bucket, bkey, bres,
                   first, threads, cursors, wrapper, dump>>

NextHash == BucketHash \/ BucketHashReopened

SpecHash == InitHash /\ [][NextHash]_vars

(***************************************************************************)
(* SpecConc: threads calling lookup and get_bucket on one shared reader,   *)
(* a step at a time                                                        *)
(***************************************************************************)

\* The threads sharing the reader.
NumThreads == 2

Threads == 1..NumThreads

\* The indices the threads call get_bucket with.
ConcIndices == {1, BigIndex}

\* The files the shared reader is opened over.
ConcGens ==
    { [value_size |-> 2, num_buckets |-> 2, table |-> t, pairs |-> <<>>] :
        t \in { <<ShapeA, ShapeB>>, <<ShapeA, Odd(255, 1, 1, "packed")>> } }

Idle == [pc |-> "idle"]

Done(th, res) == [pc |-> "done", op |-> th.op, key |-> th.key, index |-> th.index,
                  res |-> res]

\* The cursor every thread reads through: the first call's.
cursor_shared(t) == 1

\* The cursor thread t's call reads through: the one its own get_bucket made.
cursor_of(t) == t

InitConc ==
    /\ overflow_checks \in BOOLEAN
    /\ hsel \in ReaderSels
    /\ gen \in ConcGens
    /\ buf = IndexBytes(gen)
    /\ hres = Header_load(buf)
    /\ \E e \in BOOLEAN : reader = set_prefetch(open(buf), e)
    /\ threads = [t \in Threads |-> Idle]
    /\ cursors = [t \in Threads |-> NONE]
    /\ wrapper = NONE
    /\ dump = NONE
    /\ call = NoCall
    /\ first = <<>>
    /\ bucket = NONE
    /\ bkey = <<>>
    /\ bres = NONE

\* What the threads' steps leave alone.
shared == <<buf, gen, hres, overflow_checks, hsel, bucket, bkey, bres, call, first,
           wrapper, dump>>

\* Thread t enters lookup(k).
CallLookup(t, k) ==
    /\ threads[t].pc = "idle"
    /\ threads' = [threads EXCEPT ![t] = [pc |-> "get", op |-> "lookup", key |-> k,
                                          index |-> bucket_hash(reader.header, k)]]
    /\ UNCHANGED <<reader, cursors, shared>>

\* Thread t enters get_bucket(i).
CallGetBucket(t, i) ==
    /\ threads[t].pc = "idle"
    /\ threads' = [threads EXCEPT ![t] = [pc |-> "get", op |-> "get_bucket",
                                          key |-> <<>>, index |-> i]]
    /\ UNCHANGED <<reader, cursors, shared>>

\* get_bucket: the bucket and its cursor, or the error; get_bucket returns here.
GetStep(t) ==
    /\ threads[t].pc = "get"
    /\ LET th == threads[t]
           got == get_bucket(reader, th.index)
       IN  IF got.res.kind # "Ok"
           THEN /\ threads' = [threads EXCEPT ![t] = Done(th, got.res)]
                /\ UNCHANGED cursors
           ELSE /\ cursors' = [cursors EXCEPT ![cursor_of(t)] = got.res.bucket.reader]
                /\ threads' = [threads EXCEPT ![t] =
                       IF th.op = "get_bucket" THEN Done(th, got.res)
                       ELSE [pc |-> "seek", op |-> th.op, key |-> th.key,
                             index |-> th.index, bucket |-> got.res.bucket]]
    /\ UNCHANGED <<reader, shared>>

\* Bucket::lookup up to the seek of load_all_entries.
SeekStep(t) ==
    /\ threads[t].pc = "seek"
    /\ LET th == threads[t]
           target == BucketHeader_hash(th.bucket.descriptor.header, th.key)
       IN  IF target.panic
           THEN /\ threads' = [threads EXCEPT ![t] = Done(th, HashPanic)]
                /\ UNCHANGED cursors
           ELSE /\ cursors' = [cursors EXCEPT ![cursor_of(t)] =
                                  Cursor_seek(@, th.bucket.offset)]
                /\ threads' = [threads EXCEPT ![t] =
                                  [pc |-> "read", op |-> th.op, key |-> th.key,
                                   index |-> th.index, bucket |-> th.bucket,
                                   target |-> target.v]]
    /\ UNCHANGED <<reader, shared>>

\* load_all_entries from the read on.
ReadStep(t) ==
    /\ threads[t].pc = "read"
    /\ LET th == threads[t]
           loaded == read_entries(th.bucket.descriptor, cursors[cursor_of(t)])
       IN  /\ cursors' = [cursors EXCEPT ![cursor_of(t)].pos = loaded.pos]
           /\ threads' = [threads EXCEPT ![t] =
                  IF loaded.kind = "Io" THEN Done(th, ReadFailed)
                  ELSE IF loaded.kind = "Panic" THEN Done(th, UnmarshalPanic)
                  ELSE [pc |-> "search", op |-> th.op, key |-> th.key,
                        index |-> th.index, bucket |-> th.bucket,
                        target |-> th.target, entries |-> loaded.entries]]
    /\ UNCHANGED <<reader, shared>>

\* The search loop of Bucket::lookup.
SearchStep(t) ==
    /\ threads[t].pc = "search"
    /\ LET th == threads[t]
           max == th.bucket.descriptor.header.num_entries
       IN  threads' = [threads EXCEPT ![t] =
               Done(th, eytzinger_search(th.entries, max, th.target, 0, <<>>).res)]
    /\ UNCHANGED <<reader, cursors, shared>>

NextConc ==
    \E t \in Threads :
        \/ \E k \in Keys : CallLookup(t, k)
        \/ \E i \in ConcIndices : CallGetBucket(t, i)
        \/ GetStep(t)
        \/ SeekStep(t)
        \/ ReadStep(t)
        \/ SearchStep(t)

SpecConc == InitConc /\ [][NextConc]_vars

(***************************************************************************)
(* Claims about Header::load (checked under SpecHeader)                    *)
(***************************************************************************)

\* The header_len field of the buffer, when the buffer holds one.
HeaderLenField == read_u32(buf, 8)

\* C7: for a buffer encoded per the layout, Header::load returns the encoded
\* value_size, num_buckets and metadata pairs in their order, accepts the
\* encoded version, and reports the size 8 + 4 + header_len.
C7_LoadRecoversEncoding ==
    (hres # NONE /\ WellFormed(gen)) =>
        /\ hres.kind = "Ok"
        /\ hres.header.value_size = gen.value_size
        /\ hres.header.num_buckets = gen.num_buckets
        /\ hres.header.metadata = gen.md.pairs
        /\ buf[25] = VERSION
        /\ hres.size = 8 + 4 + HeaderLenField
        /\ HeaderLenField = 13 + Len(gen.md.block)

\* A well-formed buffer with two metadata pairs sharing a key and a field whose
\* bytes differ has been loaded.
C7_Witness ==
    /\ hres # NONE
    /\ WellFormed(gen)
    /\ gen.num_buckets = 513
    /\ Len(gen.md.pairs) = 2
    /\ gen.md.pairs[1][1] = gen.md.pairs[2][1]
    /\ gen.md.pairs[1][2] # gen.md.pairs[2][2]
    /\ hres.kind = "Ok"

\* The buffer is shorter than the magic or does not start with it.
BadMagic == Len(buf) < 8 \/ SubSeq(buf, 1, 8) # MAGIC

\* C8: a buffer shorter than 8 bytes or not starting with the magic makes
\* Header::load, and so open and from_slice, return InvalidMagic whatever
\* the other bytes are.
C8_BadMagicIsInvalidMagic ==
    BadMagic =>
        /\ hres # NONE => hres = InvalidMagic
        /\ reader # Unopened => (reader.state = "Failed" /\ reader.error = InvalidMagic)

\* A buffer whose magic differs in its last byte only, and whose header_len is
\* invalid as well, was refused by a constructor.
C8_Witness ==
    /\ Len(buf) >= 25
    /\ SubSeq(buf, 1, 7) = SubSeq(MAGIC, 1, 7)
    /\ buf[8] # MAGIC[8]
    /\ HeaderLenField < 12
    /\ hres = InvalidMagic
    /\ reader # Unopened
    /\ reader.state = "Failed"

\* The buffer holds the magic and a complete header block of at least the
\* 13 fixed bytes.
CompleteHeaderBlock ==
    /\ ~BadMagic
    /\ Len(buf) >= 12
    /\ HeaderLenField >= 13
    /\ Len(buf) >= 8 + 4 + HeaderLenField

\* C9: with a valid magic and a complete header block, a version byte v # 1
\* yields UnsupportedVersion{expected: 1, got: v} whatever value_size,
\* num_buckets and the metadata block are.
C9_VersionCheckedFirst ==
    (hres # NONE /\ CompleteHeaderBlock /\ buf[25] # 1) =>
        hres = [kind |-> "UnsupportedVersion", expected |-> 1, got |-> buf[25]]

\* A header with a wrong version and a malformed metadata block was loaded.
C9_Witness ==
    /\ hres # NONE
    /\ CompleteHeaderBlock
    /\ buf[25] = 2
    /\ ~gen.md.ok
    /\ hres.kind = "UnsupportedVersion"

\* C10: with a valid magic, a header_len below 13 or a buffer shorter than
\* 8 + 4 + header_len makes Header::load return InvalidFormat.
C10_ShortHeaderIsInvalidFormat ==
    (hres # NONE /\ ~BadMagic) =>
        ((Len(buf) < 12 \/ HeaderLenField < 13 \/ Len(buf) < 8 + 4 + HeaderLenField)
            => hres.kind = "InvalidFormat")

(***************************************************************************)
(* Claims about Bucket::lookup (checked under SpecBucket)                  *)
(***************************************************************************)

\* The hash the lookup of bkey compares entries with.
Target == BucketHeader_hash(bucket.descriptor.header, bkey).v

\* The stored positions whose entry carries the target hash.
Hits == { i \in 1..Len(GenEntries(gen)) : GenEntries(gen)[i].hash = Target }

\* C1: in a bucket of distinct hashes stored in Eytzinger order, of any size
\* from 0, Bucket::lookup returns the value of the entry whose hash is the
\* key's masked hash, and NotFound when there is none.
C1_EytzingerLookupFinds ==
    (bres # NONE /\ gen.layout = "eytzinger") =>
        IF Hits # {}
        THEN \E i \in Hits : bres = Ok(GenEntries(gen)[i].value)
        ELSE bres = NotFound

\* An entry at the deepest level of a five-entry Eytzinger bucket was found
\* by a hash whose bytes above hash_len are not zero.
C1_Witness ==
    /\ bres # NONE
    /\ gen.layout = "eytzinger"
    /\ Cardinality(gen.hashes) = 5
    /\ \E i \in Hits : i >= 4 /\ bres = Ok(GenEntries(gen)[i].value)
    /\ entry_hash64(0, bkey) # Target


\* Every field of the buffer but value_size and num_buckets is as the layout says.
ValidButForZeroFields(g) ==
    /\ g.magic = MAGIC
    /\ g.header_len = Exact
    /\ g.version = VERSION
    /\ g.md.ok
    /\ g.cut = Uncut

\* C11: a constructed reader has value_size >= 1 and num_buckets >= 1;
\* Header::load returns InvalidFormat for an otherwise valid header whose
\* value_size or num_buckets is 0; and when Header::load fails, open and
\* from_slice return that error and construct no reader.
C11_NoReaderOverZeroFields ==
    /\ reader.state = "Opened" =>
          (reader.header.value_size >= 1 /\ reader.header.num_buckets >= 1)
    /\ (hres # NONE /\ ValidButForZeroFields(gen)
            /\ (gen.value_size = 0 \/ gen.num_buckets = 0)) =>
          hres.kind = "InvalidFormat"
    /\ (hres # NONE /\ hres.kind # "Ok" /\ reader # Unopened) =>
          (reader.state = "Failed" /\ reader.error = hres)

\* open or from_slice has refused an otherwise valid buffer whose num_buckets is 0.
C11_Witness ==
    /\ ValidButForZeroFields(gen)
    /\ gen.num_buckets = 0
    /\ gen.value_size >= 1
    /\ reader.state = "Failed"
    /\ reader.error.kind = "InvalidFormat"

(***************************************************************************)
(* Claims about Header::bucket_hash (checked under SpecHash)               *)
(***************************************************************************)

\* The hash of the key fits three bytes, so that it can be compared as an integer.
SmallHash == \A i \in 4..8 : xxh64(hsel, bkey)[i] = 0 /\ xxh64(hsel, bkey)[4] < 128

\* The Murmur3 finalizer of 1 and of 2: 0xb456bcfc34c2cb2c and 0x3abf2a20650683e7.
KnownMix ==
    << <<44, 203, 194, 52, 252, 188, 86, 180>>, <<231, 131, 6, 101, 32, 42, 191, 58>> >>

\* C12: with h the hash of the key, n = num_buckets and u = h mod n,
\* bucket_hash returns u when (h - u) / n >= u and mix(u) mod n otherwise; it
\* is below num_buckets, and a second reader over the same bytes returns the
\* same index.
C12_BucketHashIsFastModReduction ==
    call.op = "bucket_hash" =>
        LET n == gen.num_buckets
            h == LEValue(xxh64(hsel, bkey))
            u == h % n
        IN  /\ call.res \in 0..(n - 1)
            /\ call.again # -1 => call.again = call.res
            /\ (SmallHash /\ (h - u) \div n >= u) => call.res = u
            /\ (SmallHash /\ (h - u) \div n < u /\ u \in 1..2) =>
                   call.res = U64Mod(KnownMix[u], n)

\* A key whose hash takes the fallback: (h - u) / n < u, the index differing from u.
C12_Witness ==
    /\ call.op = "bucket_hash"
    /\ call.again # -1
    /\ SmallHash
    /\ LET n == gen.num_buckets
           h == LEValue(xxh64(hsel, bkey))
       IN  (h - (h % n)) \div n < h % n /\ call.res # h % n

(***************************************************************************)
(* Claims about the calls on an opened reader (checked under Spec)         *)
(***************************************************************************)

\* C2: on an opened reader every lookup completes with a value, NotFound or
\* an InvalidFormat error: it never panics, and never fails with Io or
\* BucketOutOfBounds.
C2_LookupNeverPanics ==
    call.op = "lookup" => call.res.kind \in {"Ok", "NotFound", "InvalidFormat"}

\* The call read no byte of the backing storage.
ReadNothing == call.reads = <<>>

\* C3: get_bucket(index) with index >= num_buckets returns
\* BucketOutOfBounds{index, max: num_buckets} and reads no byte, whatever the
\* other checks of get_bucket would say.
C3_OutOfRangeIndexRejectedFirst ==
    (call.op = "get_bucket" /\ call.index >= reader.header.num_buckets) =>
        /\ call.res = BucketOutOfBounds(call.index, reader.header.num_buckets)
        /\ ReadNothing

\* An index past the table, on a file too short to hold a record there.
C3_Witness ==
    /\ call.op = "get_bucket"
    /\ call.index = BigIndex
    /\ reader.backing = "mmap"
    /\ call.res.kind = "BucketOutOfBounds"
    /\ call.res.max = 2
    /\ Len(gen.table) = 1

\* C4: every lookup of a key returns what the first lookup of the key
\* returned, whatever calls came between and whatever the prefetch flag is.
C4_LookupIdempotent ==
    (call.op = "lookup" /\ first[call.key] # NONE) =>
        call.res = first[call.key].res

\* A key found again with the prefetch flag changed since its first lookup.
C4_Witness ==
    /\ call.op = "lookup"
    /\ first[call.key] # NONE
    /\ call.prefetch
    /\ ~first[call.key].prefetch
    /\ call.res.kind = "Ok"
    /\ reader.backing = "mmap"

\* What the accessors return on reader r.
Answers(r) ==
    [ gets |-> [i \in Indices |-> get_bucket(r, i).res],
      slice_gets |-> [i \in Indices |-> Slice_get_bucket(r, i).res],
      lookups |-> [k \in Keys |-> lookup(r, k).res] ]

\* C5: no call changes the reader's header, header_size or bytes; only
\* set_prefetch changes the prefetch flag; and what get_bucket and lookup
\* return is the same after every call, failed or not.
C5_CallsLeaveReaderUnchanged ==
    [][ reader.state = "Opened" =>
          /\ reader'.state = "Opened"
          /\ reader'.header = reader.header
          /\ reader'.header_size = reader.header_size
          /\ reader'.data = reader.data
          /\ reader'.backing = reader.backing
          /\ (reader'.prefetch # reader.prefetch => call'.op = "set_prefetch")
          /\ (reader' # reader => Answers(reader') = Answers(reader)) ]_vars

\* An access to one bucket has failed and another bucket is still served.
C5_Witness ==
    /\ call.op \in {"get_bucket", "lookup"}
    /\ call.res.kind \in {"InvalidFormat", "Panic"}
    /\ Len(gen.table) = 2
    /\ \E j \in {0, 1} \ {call.index} : get_bucket(reader, j).res.kind = "Ok"


\* The generated file is laid out per the format: value_size in 1..255, one
\* record per bucket, hashes of 1..8 bytes, and every bucket's entries, of the
\* true stride, inside the file.
PerFormat(g) ==
    /\ g.value_size \in 1..255
    /\ g.num_buckets = Len(g.table)
    /\ \A i \in 1..Len(g.table) :
          /\ g.table[i].hash_len \in 1..8
          /\ g.table[i].place = "packed"
          /\ g.table[i].stored = g.table[i].num_entries

\* The fields of the i-th 16-byte record after the header, read off the bytes.
RecordAt(i) ==
    LET off == reader.header_size + 16 * i
    IN  [hash_domain |-> LEValue(Slice(buf, off, off + 4)),
         num_entries |-> LEValue(Slice(buf, off + 4, off + 8)),
         hash_len |-> buf[off + 8 + 1],
         file_offset |-> LEValue(Slice(buf, off + 10, off + 16))]

\* C14: over a file laid out per the format with B buckets, bucket_indices
\* yields 0, 1, ..., B-1 in order, get_bucket(i) for i < B succeeds with the
\* fields of the i-th record, and get_bucket(B) fails with BucketOutOfBounds.
C14_IndicesAndRecords ==
    (PerFormat(gen) /\ reader.state = "Opened") =>
        LET B == gen.num_buckets
        IN  /\ call.op = "bucket_indices" => call.res.value = [i \in 1..B |-> i - 1]
            /\ (call.op = "get_bucket" /\ call.index < B) =>
                  /\ call.res.kind = "Ok"
                  /\ call.res.bucket.descriptor.header = RecordAt(call.index)
            /\ (call.op = "get_bucket" /\ call.index = B) =>
                  call.res.kind = "BucketOutOfBounds"

(***************************************************************************)
(* Claims about concurrent calls (checked under SpecConc)                  *)
(***************************************************************************)

\* What the call of a thread returns when it runs alone on the reader.
Alone(th) ==
    IF th.op = "lookup" THEN lookup(reader, th.key).res
    ELSE get_bucket(reader, th.index).res

\* The threads whose locals or cursor a step changes.
Touched ==
    { t \in Threads : threads'[t] # threads[t] \/ cursors'[t] # cursors[t] }

\* C6: under every interleaving each finished call has the result it has
\* when run alone, and every step leaves the reader as it is and changes the
\* locals and the cursor of one call only.
C6_ConcurrentCallsAsAlone ==
    /\ [](\A t \in Threads : threads[t].pc = "done" => threads[t].res = Alone(threads[t]))
    /\ [][reader' = reader /\ Cardinality(Touched) <= 1]_vars

\* Two lookups of one bucket in progress at once, one of them finished with
\* a value while the other has sought but not read.
C6_Witness ==
    /\ threads[1].pc = "done"
    /\ threads[1].op = "lookup"
    /\ threads[1].res.kind = "Ok"
    /\ threads[2].pc = "read"
    /\ threads[2].index = threads[1].index
    /\ cursors[1].pos > 0


(***************************************************************************)
(* Claims about the test fixtures (checked under SpecFixture)              *)
(***************************************************************************)

\* The masked hash the last lookup searched its bucket for.
CallTarget ==
    BucketHeader_hash([hash_domain |-> call.index, num_entries |-> 0, hash_len |-> 3,
                       file_offset |-> 0], call.key).v

\* C13: in the bucket holding (0x111111, [1,2,3,4]) then (0x222222, [5,6,7,8]),
\* hash_len 3 and value width 4, a lookup whose target hash is 0x111111
\* returns [1,2,3,4] and one whose target hash is 0x999999 returns NotFound.
C13_FixtureLookup ==
    (call.op = "lookup" /\ call.index = 0) =>
        /\ CallTarget = <<17, 17, 17, 0, 0, 0, 0, 0>> => call.res = Ok(<<1, 2, 3, 4>>)
        /\ CallTarget = <<153, 153, 153, 0, 0, 0, 0, 0>> => call.res = NotFound

\* The single-bucket fixture has answered a lookup with target 0x111111 whose
\* unmasked hash has a nonzero high half.
C13_Witness ==
    /\ gen.fixture = "unit"
    /\ call.op = "lookup"
    /\ CallTarget = <<17, 17, 17, 0, 0, 0, 0, 0>>
    /\ entry_hash64(0, call.key) # CallTarget
    /\ call.res.kind = "Ok"


(***************************************************************************)
(* Claims about the typed wrappers (checked under SpecWrap)                *)
(***************************************************************************)

\* C15: CidToOffsetAndSize::open on a file whose header parses and whose
\* value_size is v # 9 fails with ValueSizeMismatch{expected: 9, got: v} and
\* builds no wrapper, whatever the index_kind metadata says.
C15_ValueSizeCheckedBeforeKind ==
    (wrapper # NONE /\ wrapper.of = "cid-to-offset-and-size"
        /\ hres.kind = "Ok" /\ gen.value_size # 9) =>
        wrapper.it = NoWrapper(ValueSizeMismatch(9, gen.value_size))

\* The open of a file of value_size 265 carrying another wrapper's kind.
C15_Witness ==
    /\ wrapper # NONE
    /\ wrapper.of = "cid-to-offset-and-size"
    /\ gen.value_size = 265
    /\ gen.pairs = << <<KIND_KEY, SlotToCid_KIND>> >>
    /\ wrapper.it.state = "Failed"
    /\ wrapper.it.error.kind = "ValueSizeMismatch"


\* C16: SigToCid::lookup of a key that is not 64 bytes long returns
\* InvalidFormat and reads nothing; of a 64-byte key it returns what the
\* reader's lookup returns.
C16_SignatureLengthCheckedFirst ==
    call.op = "sig_lookup" =>
        /\ Len(call.key) # 64 => (call.res.kind = "InvalidFormat" /\ ReadNothing)
        /\ Len(call.key) = 64 => call.res = lookup(wrapper.it.reader, call.key).res

\* A 63-byte key refused where the reader itself would have answered with a value.
C16_Witness ==
    /\ call.op = "sig_lookup"
    /\ Len(call.key) = 63
    /\ call.res.kind = "InvalidFormat"
    /\ lookup(wrapper.it.reader, call.key).res.kind = "Ok"

\* The wrapper's kind string.
KindOf(name) ==
    CASE name = "slot-to-cid" -> SlotToCid_KIND
      [] name = "sig-to-cid" -> SigToCid_KIND
      [] name = "cid-to-offset-and-size" -> CidToOffsetAndSize_KIND

RECURSIVE FirstValues(_, _)
\* The value of the first pair with the key, in a sequence of at most one value.
FirstValues(pairs, key) ==
    IF pairs = <<>> THEN <<>>
    ELSE IF pairs[1][1] = key THEN <<pairs[1][2]>>
    ELSE FirstValues(Tail(pairs), key)

\* The file passes the wrapper's kind check: no index_kind, or the first is its kind.
KindAccepted(name) ==
    \/ FirstValues(gen.pairs, KIND_KEY) = <<>>
    \/ FirstValues(gen.pairs, KIND_KEY) = <<KindOf(name)>>

\* C17: once the header has parsed (and, for CidToOffsetAndSize, the value
\* size is 9), open builds the wrapper exactly when the metadata has no
\* index_kind key or its first index_kind value is the wrapper's kind, and
\* fails with InvalidFormat otherwise.
C17_KindCheckedOnlyWhenPresent ==
    (wrapper # NONE /\ hres.kind = "Ok"
        /\ (wrapper.of = "cid-to-offset-and-size" => gen.value_size = 9)) =>
        /\ wrapper.it.state = "Opened" <=> KindAccepted(wrapper.of)
        /\ ~KindAccepted(wrapper.of) => wrapper.it = NoWrapper(InvalidFormat("Wrong index kind"))

\* SlotToCid::open has refused a file whose first index_kind is another
\* wrapper's although its second is "slot-to-cid".
C17_Witness ==
    /\ wrapper # NONE
    /\ wrapper.of = "slot-to-cid"
    /\ gen.pairs = << <<KIND_KEY, CidToOffsetAndSize_KIND>>, <<KIND_KEY, SlotToCid_KIND>> >>
    /\ wrapper.it.state = "Failed"

\* A wrapper has been built over a file that has no index_kind at all.
KindAbsentAccepted ==
    /\ wrapper # NONE
    /\ FirstValues(gen.pairs, KIND_KEY) = <<>>
    /\ wrapper.it.state = "Opened"


\* What CidToOffsetAndSize::lookup makes of a 9-byte value.
Decoded(value) ==
    [offset |-> bytes_to_uint48(SubSeq(value, 1, 6)),
     size |-> bytes_to_uint24(SubSeq(value, 7, 9))]

\* C18: CidToOffsetAndSize::lookup returns offset = the little-endian integer
\* of bytes 0..6 of the stored value and size = that of bytes 6..9, so
\* offset < 2^48 and size < 2^24; and decoding encode_offset_and_size(offset,
\* size) gives (offset, size) back, for the sampled offsets and sizes and for
\* the pair stored with the key found.
C18_OffsetAndSizeRoundTrip ==
    /\ \A i \in 1..Len(OffsetSamples) :
          /\ ~encode_offset_and_size(OffsetSamples[i], SizeSamples[i]).panic
          /\ Decoded(encode_offset_and_size(OffsetSamples[i], SizeSamples[i]).bytes)
                = [offset |-> OffsetSamples[i], size |-> SizeSamples[i]]
    /\ (call.op = "cid_lookup" /\ call.res.kind = "Ok") =>
          LET value == lookup(wrapper.it.reader, call.key).res.value
          IN  /\ Len(value) = 9
              /\ call.res.offset = SubSeq(value, 1, 6) \o <<0, 0>>
              /\ call.res.size = value[7] + 256 * value[8] + 65536 * value[9]
              /\ call.res.size < 16777216
              /\ \E k \in 1..3 :
                    /\ call.res.offset = OffsetSamples[gen.shift + k]
                    /\ call.res.size = SizeSamples[gen.shift + k]

\* A lookup has returned the largest offset and the largest size.
C18_Witness ==
    /\ call.op = "cid_lookup"
    /\ call.res.kind = "Ok"
    /\ call.res.offset = <<255, 255, 255, 255, 255, 255, 0, 0>>
    /\ call.res.size = 16777215


\* C19: get_metadata(key) is Some(value of the first pair, in the order of the
\* file, whose key is the argument) and None when no pair has the key; with
\* two pairs of the same key the second one's value is not what comes back,
\* alone or appended to the first.
C19_MetadataGetFirstMatch ==
    call.op = "get_metadata" =>
        LET found == FirstValues(gen.pairs, call.key)
        IN  /\ found = <<>> => call.res = NONE
            /\ found # <<>> => call.res = [kind |-> "Some", value |-> found[1]]
            /\ \A i, j \in 1..Len(gen.pairs) :
                  (i < j /\ gen.pairs[i][1] = call.key /\ gen.pairs[j][1] = call.key
                         /\ gen.pairs[i][2] # gen.pairs[j][2])
                     => /\ call.res.value # gen.pairs[j][2]
                        /\ call.res.value = gen.pairs[i][2]

\* The key asked for is in two pairs, the first with an empty value, and the
\* empty value came back.
C19_Witness ==
    /\ call.op = "get_metadata"
    /\ Len(gen.pairs) = 2
    /\ gen.pairs[1][1] = call.key
    /\ gen.pairs[2][1] = call.key
    /\ gen.pairs[2][2] = <<7, 8>>
    /\ call.res = [kind |-> "Some", value |-> <<>>]


\* The buffer reaches the metadata step of Header::load: magic, header_len,
\* version and length are as the layout says.
ReachesMetadata ==
    /\ gen.magic = MAGIC
    /\ gen.header_len = Exact
    /\ gen.version = VERSION
    /\ gen.cut = Uncut

\* C20: unmarshalling an empty buffer gives zero pairs; a block whose first
\* byte is N gives exactly the N pairs that follow it, in order, whatever
\* comes after them; a block that ends before a length byte or inside a key
\* or a value of one of the N pairs gives InvalidFormat, and then Header::load
\* and both constructors fail with it.
C20_MetadataUnmarshal ==
    /\ unmarshal_binary(<<>>, <<>>) = [kind |-> "Ok", pairs |-> <<>>]
    /\ LET md == unmarshal_binary(<<>>, gen.md.block)
       IN  /\ gen.md.ok => /\ md = [kind |-> "Ok", pairs |-> gen.md.pairs]
                           /\ gen.md.block # <<>> => Len(md.pairs) = gen.md.block[1]
           /\ ~gen.md.ok => md.kind = "InvalidFormat"
    /\ (hres # NONE /\ ReachesMetadata) =>
          /\ (gen.md.ok /\ gen.value_size >= 1 /\ gen.num_buckets >= 1) =>
                (hres.kind = "Ok" /\ hres.header.metadata = gen.md.pairs)
          /\ ~gen.md.ok => hres.kind = "InvalidFormat"
    /\ (reader # Unopened /\ ReachesMetadata /\ ~gen.md.ok) =>
          (reader.state = "Failed" /\ reader.error.kind = "InvalidFormat")

\* A block announcing two pairs and holding one was refused by Header::load.
C20_Witness ==
    /\ hres # NONE
    /\ ReachesMetadata
    /\ gen.md.block = <<2, 1, 1, 0>>
    /\ gen.value_size >= 1
    /\ gen.num_buckets >= 1
    /\ hres.kind = "InvalidFormat"

\* A block with bytes after its one pair was loaded as that one pair.
LongBlockLoaded ==
    /\ hres # NONE
    /\ ReachesMetadata
    /\ gen.md.block = <<1, 1, 1, 2, 7, 8, 1, 1, 0>>
    /\ hres.kind = "Ok"
    /\ Len(hres.header.metadata) = 1


\* The call goes through get_bucket.
ThroughGetBucket == call.op \in {"get_bucket", "lookup", "lookup_bucket"}

\* The byte range of the bucket-header table as the header announces it.
TableRange ==
    <<reader.header_size, reader.header_size + 16 * reader.header.num_buckets>>

\* C21 as stated: the bucket-header table is parsed once, at construction,
\* and no later get_bucket or lookup reads a byte of it.
C21_TableParsedOnce ==
    ThroughGetBucket =>
        \A i \in 1..Len(call.reads) :
            \/ call.reads[i][2] <= TableRange[1]
            \/ call.reads[i][1] >= TableRange[2]

\* C21, amended: the header is parsed once, at construction, and the reader
\* keeps it; the table is not parsed then.  Every get_bucket, lookup_bucket
\* and lookup whose index is in range and whose record lies inside the file
\* reads and decodes that one 16-byte record, at header_size + 16 * index,
\* again; a lookup that reaches the entries then reads the bucket's entry
\* range; a call that stops before the record reads nothing.
C21_RecordDecodedPerAccess ==
    /\ reader.state = "Opened" =>
          (reader.header = hres.header /\ reader.header_size = hres.size)
    /\ ThroughGetBucket =>
          LET off == reader.header_size + 16 * call.index
              d == BucketDescriptor_new(RecordAt(call.index), reader.header.value_size)
              lo == d.header.file_offset
          IN  IF call.index < reader.header.num_buckets /\ off + 16 <= Len(buf)
              THEN /\ Len(call.reads) \in {1, 2}
                   /\ call.reads[1] = <<off, off + 16>>
                   /\ (call.op # "lookup" /\ call.res.kind = "Ok") =>
                         /\ Len(call.reads) = 1
                         /\ call.res.bucket.descriptor = [d EXCEPT !.panic = FALSE]
                   /\ (call.op = "lookup" /\ call.res.kind \in {"Ok", "NotFound"}) =>
                         /\ Len(call.reads) = 2
                         /\ call.reads[2] = <<lo, lo + d.header.num_entries * d.stride>>
              ELSE call.reads = <<>>

\* A lookup in a file of two buckets has read its bucket's record and then
\* the bucket's entries, and found the key.
C21_Witness ==
    /\ call.op = "lookup"
    /\ Len(gen.table) = 2
    /\ call.res.kind = "Ok"
    /\ Len(call.reads) = 2
    /\ call.reads[1] = <<reader.header_size + 16 * call.index,
                         reader.header_size + 16 * call.index + 16>>
    /\ call.reads[2][1] >= TableRange[2]


\* The reader of the other kind over the same bytes, with the same prefetch flag.
Twin(r) ==
    LET t == IF r.backing = "mmap" THEN from_slice(buf) ELSE open(buf)
    IN  IF t.state = "Opened" THEN set_prefetch(t, r.prefetch) ELSE t

\* What the last call returns when made on reader t, by t's own code.
Replayed(t) ==
    CASE call.op = "get_bucket" ->
            IF t.backing = "mmap" THEN get_bucket(t, call.index).res
            ELSE Slice_get_bucket(t, call.index).res
      [] call.op = "lookup" ->
            IF t.backing = "mmap" THEN lookup(t, call.key).res
            ELSE Slice_lookup(t, call.key).res
      [] call.op = "lookup_bucket" ->
            IF t.backing = "mmap" THEN lookup_bucket(t, call.key).res
            ELSE Slice_lookup_bucket(t, call.key).res
      [] call.op = "get_metadata" ->
            LET m == get_metadata(t, call.key)
            IN  IF m.some THEN [kind |-> "Some", value |-> m.value] ELSE NONE
      [] call.op = "bucket_indices" -> [kind |-> "Indices", value |-> bucket_indices(t)]
      [] OTHER -> NONE

\* C22: open over a file and from_slice over the same bytes both fail with
\* the same error or both succeed with the same value_size, num_buckets and
\* header size; and every get_bucket, lookup, lookup_bucket, get_metadata and
\* bucket_indices call returns on one what it returns on the other under the
\* same prefetch flag.
C22_SliceAndMmapEquivalent ==
    /\ reader.state = Twin(reader).state
    /\ reader.state = "Failed" => reader.error = Twin(reader).error
    /\ reader.state = "Opened" =>
          /\ reader.header = Twin(reader).header
          /\ reader.header_size = Twin(reader).header_size
          /\ reader.prefetch = Twin(reader).prefetch
          /\ call.op \notin {"none", "set_prefetch"} => call.res = Replayed(Twin(reader))

\* A get_bucket on the slice reader has failed on a record cut off by the end
\* of the bytes, with prefetch enabled.
C22_Witness ==
    /\ reader.state = "Opened"
    /\ reader.backing = "slice"
    /\ reader.prefetch
    /\ call.op = "get_bucket"
    /\ call.res.kind = "InvalidFormat"
    /\ call.index < reader.header.num_buckets
    /\ call.reads = <<>>

\* Both constructors have refused a file.
BothRefuse ==
    /\ reader.state = "Failed"
    /\ Twin(reader).state = "Failed"


\* The entry range the record of the call's bucket announces, with the stride
\* the descriptor holds: a u8.
Announced ==
    LET rec == RecordAt(call.index)
        stride == (rec.hash_len + (reader.header.value_size % 256)) % 256
    IN  [lo |-> rec.file_offset, hi |-> rec.file_offset + rec.num_entries * stride,
         num_entries |-> rec.num_entries]

\* C23: a get_bucket(i) that returns Ok has its record and its entry range
\* inside the buffer, and the bucket reads exactly the entry range: load_all
\* and load_entry(j), j < num_entries, stay inside it and do not fail with an
\* I/O error, and load_entry(num_entries) is InvalidFormat; a get_bucket with
\* i < num_buckets whose record or entry range passes the end of the buffer
\* returns InvalidFormat.
C23_BucketWithinBuffer ==
    (call.op = "get_bucket" /\ call.index < reader.header.num_buckets) =>
        LET off == reader.header_size + 16 * call.index
            b == call.res.bucket
            all == Bucket_load_all(b)
        IN  /\ call.res.kind = "Ok" =>
                  /\ off + 16 <= Len(buf)
                  /\ Announced.hi <= Len(buf)
                  /\ b.reader.base = Announced.lo
                  /\ b.reader.data = Slice(buf, Announced.lo, Announced.hi)
                  /\ all.kind # "Io"
                  /\ all.range = <<Announced.lo, Announced.hi>>
                  /\ \A j \in 0..(Announced.num_entries - 1) :
                        LET one == Bucket_load_entry(b, j)
                        IN  /\ one.kind # "Io"
                            /\ Announced.lo <= one.range[1]
                            /\ one.range[2] <= Announced.hi
                  /\ Bucket_load_entry(b, Announced.num_entries).kind = "InvalidFormat"
            /\ off + 16 > Len(buf) => call.res.kind = "InvalidFormat"
            /\ (off + 16 <= Len(buf) /\ Announced.hi > Len(buf)) =>
                  call.res.kind = "InvalidFormat"


\* C24: for a header value_size in 1..255 and a record with hash_len in 1..8,
\* BucketDescriptor::new completes with value_width = value_size and stride =
\* hash_len + value_size, the integer sum, and a value a lookup in the bucket
\* returns is value_size bytes long; for value_size > 255 the value_width is
\* value_size mod 256.
C24_StrideIsExactSum ==
    (call.op \in {"get_bucket", "lookup"}
        /\ call.index < reader.header.num_buckets
        /\ reader.header_size + 16 * call.index + 16 <= Len(buf)) =>
        LET rec == RecordAt(call.index)
            value_size == reader.header.value_size
            d == BucketDescriptor_new(rec, value_size)
        IN  /\ (value_size \in 1..255 /\ rec.hash_len \in 1..8) =>
                  /\ ~d.panic
                  /\ d.value_width = value_size
                  /\ d.stride = rec.hash_len + value_size
                  /\ call.res.kind # "Panic"
                  /\ (call.op = "get_bucket" /\ call.res.kind = "Ok") =>
                        call.res.bucket.descriptor.stride = rec.hash_len + value_size
                  /\ (call.op = "lookup" /\ call.res.kind = "Ok") =>
                        Len(call.res.value) = value_size
            /\ value_size > 255 => d.value_width = value_size % 256


\* The u64 is below 2^(8 * n): its bytes from the n-th on are zero.
Below(x, n) == \A i \in (n + 1)..8 : x[i] = 0

\* C25: for a bucket with hash_len in 1..8, the target of a lookup is the
\* entry hash of the key modulo 2^(8 * hash_len), and the hash of every entry
\* decoded is the little-endian value of the first hash_len bytes of its
\* record and of no other byte; both are below 2^(8 * hash_len).
C25_HashesMaskedToHashLen ==
    (bres # NONE /\ gen.hash_len \in 1..8) =>
        LET header == bucket.descriptor.header
            n == header.hash_len
            stride == bucket.descriptor.stride
            target == BucketHeader_hash(header, bkey)
            xsum == entry_hash64(header.hash_domain, bkey)
            loaded == load_all_entries(bucket)
        IN  /\ ~target.panic
            /\ \A i \in 1..8 : target.v[i] = IF i <= n THEN xsum[i] ELSE 0
            /\ Below(target.v, n)
            /\ loaded.kind = "Ok"
            /\ Len(loaded.entries) = header.num_entries
            /\ \A k \in 1..header.num_entries :
                  /\ \A i \in 1..8 :
                        loaded.entries[k].hash[i] =
                            IF i <= n THEN bucket.reader.data[(k - 1) * stride + i] ELSE 0
                  /\ Below(loaded.entries[k].hash, n)

\* A key whose entry hash has bytes above hash_len was looked up, and found,
\* in a bucket of one-byte hashes whose records hold value bytes after them.
C25_Witness ==
    /\ bres # NONE
    /\ gen.hash_len = 1
    /\ gen.value_width = 2
    /\ ~Below(entry_hash64(0, bkey), 1)
    /\ bres.kind = "Ok"
    /\ Cardinality(gen.hashes) >= 2


RECURSIVE Log2Floor(_)
\* floor(log2(n)) for n >= 1.
Log2Floor(n) == IF n <= 1 THEN 0 ELSE 1 + Log2Floor(n \div 2)

\* ceil(log2(n)) for n >= 1.
Log2Ceil(n) == IF n <= 1 THEN 0 ELSE 1 + Log2Floor(n - 1)

\* The entry indices the lookup of bkey compared with the target, in order.
Probes == Bucket_lookup_full(bucket, bkey).probes

\* The probes are a path of the implicit tree from the root: 0, then a child
\* 2i+1 or 2i+2 of the index before, all below n.
RootPath(n) ==
    /\ Probes # <<>> => Probes[1] = 0
    /\ \A j \in 1..Len(Probes) : Probes[j] < n
    /\ \A j \in 1..(Len(Probes) - 1) :
          Probes[j + 1] \in {2 * Probes[j] + 1, 2 * Probes[j] + 2}

\* C26 as stated: in a bucket of n >= 1 entries the lookup compares at most
\* ceil(log2(n)) entries, along a path from the root.
C26_AtMostCeilLog2Probes ==
    (bres # NONE /\ bucket.descriptor.header.num_entries >= 1) =>
        /\ Len(Probes) <= Log2Ceil(bucket.descriptor.header.num_entries)
        /\ RootPath(bucket.descriptor.header.num_entries)

\* C26, amended: in a bucket of n >= 1 entries the lookup compares at least
\* one and at most floor(log2(n)) + 1 entries, the depth of the implicit tree,
\* along a path from the root, and returns.
C26_AtMostTreeDepthProbes ==
    (bres # NONE /\ bucket.descriptor.header.num_entries >= 1) =>
        /\ Len(Probes) >= 1
        /\ Len(Probes) <= Log2Floor(bucket.descriptor.header.num_entries) + 1
        /\ RootPath(bucket.descriptor.header.num_entries)
        /\ bres.kind \in {"Ok", "NotFound"}

\* A lookup in a bucket of four entries has compared three of them, down to
\* the only node of the third level.
C26_Witness ==
    /\ bres # NONE
    /\ bucket.descriptor.header.num_entries = 4
    /\ Probes = <<0, 1, 3>>


\* Keys beside the one looked up, some of which share its masked hash.
Rivals == Keys \cup { <<5>>, <<6>> }

\* The hash and the value the k-th record of the bucket's bytes holds.
Stored(k) ==
    LET d == bucket.descriptor
        at == (k - 1) * d.stride
    IN  [hash |-> [i \in 1..8 |-> IF i <= d.header.hash_len
                                  THEN bucket.reader.data[at + i] ELSE 0],
         value |-> SubSeq(bucket.reader.data, at + d.header.hash_len + 1, at + d.stride)]

\* C27: whatever the order of the entries, and with a hash stored twice, a
\* lookup that returns Ok(v) has an entry of the bucket with the key's
\* masked hash and the value v; and a key with the same masked hash as the
\* key looked up gets the same result from the bucket.
C27_HashMatchIsTheAnswer ==
    bres # NONE =>
        /\ bres.kind = "Ok" =>
              \E k \in 1..bucket.descriptor.header.num_entries :
                  /\ Stored(k).hash = Target
                  /\ Stored(k).value = bres.value
        /\ \A other \in Rivals :
              BucketHeader_hash(bucket.descriptor.header, other).v = Target =>
                  Bucket_lookup(bucket, other) = bres

\* In a bucket stored out of order that holds a hash twice, a key was found
\* whose masked hash another key, of another full hash, shares.
C27_Witness ==
    /\ bres # NONE
    /\ gen.layout = "mixed"
    /\ bres.kind = "Ok"
    /\ \E k, l \in 1..bucket.descriptor.header.num_entries :
          k # l /\ Stored(k).hash = Target /\ Stored(l).hash = Target
    /\ \E other \in Rivals :
          /\ BucketHeader_hash(bucket.descriptor.header, other).v = Target
          /\ entry_hash64(0, other) # entry_hash64(0, bkey)


\* The entries of the fixtures' buckets as they are stored, by bucket index.
FixtureEntries ==
    << << [hash |-> <<17, 17, 17, 0, 0, 0, 0, 0>>, value |-> <<1, 2, 3, 4>>],
          [hash |-> <<34, 34, 34, 0, 0, 0, 0, 0>>, value |-> <<5, 6, 7, 8>>] >>,
       << [hash |-> <<51, 51, 51, 0, 0, 0, 0, 0>>, value |-> <<9, 10, 11, 12>>] >> >>

\* C28: in each bucket of the fixtures (bucket 0 stored as 0x111111 then
\* 0x222222, bucket 1 as 0x333333) a lookup whose target is the hash of a
\* stored entry returns the value of that entry.
C28_FixtureEntriesRetrievable ==
    (call.op = "lookup" /\ call.index < reader.header.num_buckets) =>
        \A k \in 1..Len(FixtureEntries[call.index + 1]) :
            CallTarget = FixtureEntries[call.index + 1][k].hash =>
                call.res = Ok(FixtureEntries[call.index + 1][k].value)


\* C29: for a descriptor with hash_len in 1..8 and an entry whose value is
\* value_width bytes long, marshal_entry into a buffer of at least stride
\* bytes and unmarshal_entry of that buffer give the entry back when its hash
\* is below 2^(8 * hash_len), and otherwise the hash modulo 2^(8 * hash_len)
\* with the same value.
C29_MarshalUnmarshalRoundTrip ==
    (bucket # NONE /\ ~bucket.panic /\ gen.hash_len \in 1..8) =>
        /\ call.op = "marshal_entry" => call.res.kind = "Ok"
        /\ bres # NONE =>
              /\ ~bres.panic
              /\ bres.value = GenEntry(gen).value
              /\ \A i \in 1..8 :
                    bres.hash[i] = IF i <= gen.hash_len THEN gen.hash[i] ELSE 0
              /\ Below(gen.hash, gen.hash_len) =>
                    [hash |-> bres.hash, value |-> bres.value] = GenEntry(gen)

(***************************************************************************)
(* Claims about dump_slots (checked under SpecDump)                        *)
(***************************************************************************)

\* The slots of the range visited so far are its first ones, in order.
InRangeOrder ==
    /\ Len(dump.visited) <= Len(gen.range.slots)
    /\ dump.visited = SubSeq(gen.range.slots, 1, Len(dump.visited))

\* C30: once both indexes are open, a run of dump_slots over a range with
\* start <= end is never aborted; the slots it has visited are the first
\* slots of the range, each once and in ascending order; a slot whose slot
\* lookup or CID lookup fails is tallied and the loop goes on; and when the
\* loop has completed every slot of the range has been visited and
\* found + not_found + cid_not_found = end - start + 1, the number of slots
\* of the range.
C30_DumpSlotsVisitsAndTallies ==
    (dump # NONE /\ dump.pc \notin {"args", "error"}
     /\ ~U64Less(gen.range.end, gen.range.start)) =>
        /\ dump.pc # "panic"
        /\ InRangeOrder
        /\ dump.found + dump.not_found + dump.cid_not_found = Len(dump.visited)
        /\ dump.pc \in {"summary", "done"} =>
              /\ dump.visited = gen.range.slots
              /\ dump.visited[Len(dump.visited)] = gen.range.end
              /\ dump.found + dump.not_found + dump.cid_not_found
                    = Len(gen.range.slots)

====
